---- MODULE Spec2Model ----
(***************************************************************************)
(* A model of forte's ontology code generation objects                     *)
(* (forte/data/ontology/code_generation_objects.py): the ImportManager and *)
(* its pool, and the EntryTree.                                            *)
(*                                                                         *)
(* Python strings are TLA+ strings; a dict is a function on the finite set *)
(* of its keys; a list is a sequence; an object is a record of its fields. *)
(* A method is an operator from the object (and its arguments) to a record *)
(* holding the object afterwards, the value returned, the exception raised *)
(* and whether a warning was emitted.  A Property holds a reference to its *)
(* import manager: its methods are operators from the property and the     *)
(* manager to the manager afterwards and the value returned.               *)
(***************************************************************************)
EXTENDS Integers, Sequences, FiniteSets, TLC

VARIABLES
  pool,       \* the ImportManagerPool
  all_fixed,  \* fix_all_modules has been called on the pool
  last,       \* the last call on the pool or on one of its managers
  nops,       \* the number of calls made on the pool and its managers
  tree,       \* the EntryTree
  declared,   \* entry name -> the parent names add_node was given for it
  tlast,      \* the last call on the tree
  tops,       \* the number of add_node calls made
  prop,       \* the Property constructed, NoProperty before
  plast,      \* the last call of a Property constructor or method
  pops,       \* the number of calls of Property methods made
  fs,         \* the file system: path -> Dir or the text of the file
  wlast,      \* the last call of a ModuleWriter method
  wops,       \* the number of calls of ModuleWriter methods made
  module_writers, \* the writers of the ModuleWriterPool
  entry,      \* the EntryDefinition made last, with its EntryName
  mlast,      \* the last call on the writers or the entry
  mops        \* the number of such calls made

imvars == <<pool, all_fixed, last, nops>>
treevars == <<tree, declared, tlast, tops>>
propvars == <<prop, plast, pops>>
writervars == <<fs, wlast, wops>>
modulevars == <<module_writers, entry, mlast, mops>>
vars == <<pool, all_fixed, last, nops, tree, declared, tlast, tops,
          prop, plast, pops, fs, wlast, wops,
          module_writers, entry, mlast, mops>>

-----------------------------------------------------------------------------
(* Bounds of the model. *)

\* The number of calls made on the import manager pool in one run.
MaxOps == 4

-----------------------------------------------------------------------------
(* Values. *)

None == "<None>"
NoException == "<no exception>"
CodeGenerationException == "CodeGenerationException"
ValueError == "ValueError"

\* Python's True and False, as values a method returns.
True == "True"
False == "False"
PyBool(b) == IF b THEN True ELSE False

SUPPORTED_PRIMITIVES == {"int", "float", "str", "bool"}
NON_COMPOSITES == SUPPORTED_PRIMITIVES
COMPOSITES == {"List", "Dict"}

\* The dotted full names and the module names of the runs.
FullNames == {"pkg.a.Foo", "pkg.b.Foo", "pkg.a.Foo_0", "typing", "int"}
ModuleNames == {"pkg.a", "pkg.b"}
\* The names the root manager is asked to import and is_known_name is asked
\* for: the full names and a composite.
KnownNames == FullNames \cup {"List"}
\* The names given to add_default_import.
DefaultNames == {"typing", "pkg.b.Foo"}

\* An empty dict.
EmptyDict == [k \in {} |-> None]

\* d[k] = v
DictSet(d, k, v) == [x \in DOMAIN d \cup {k} |-> IF x = k THEN v ELSE d[x]]

\* sep.join(parts)
RECURSIVE join(_, _)
join(sep, parts) ==
  IF Len(parts) = 0 THEN ""
  ELSE IF Len(parts) = 1 THEN parts[1]
  ELSE parts[1] \o sep \o join(sep, Tail(parts))

\* s.find(sep) for a separator of one character that is in s, from 1.
find(s, sep) ==
  CHOOSE i \in 1..Len(s) :
    /\ SubSeq(s, i, i) = sep
    /\ \A j \in 1..(i - 1) : SubSeq(s, j, j) # sep

\* s.split(sep) for a separator of one character: the parts of s between
\* the places of the separator, in their order.
RECURSIVE split_by(_, _)
split_by(s, sep) ==
  IF \A i \in 1..Len(s) : SubSeq(s, i, i) # sep THEN <<s>>
  ELSE <<SubSeq(s, 1, find(s, sep) - 1)>>
       \o split_by(SubSeq(s, find(s, sep) + 1, Len(s)), sep)

\* s.split(".")
split(s) == split_by(s, ".")

\* The statements after an assignment v = ..., as F of the value assigned:
\* the value is computed once, before the statements.
With(v, F(_)) == CHOOSE result \in {F(x) : x \in {v}} : TRUE

\* The result of a method call: the object afterwards, the value returned,
\* the exception raised, whether a warning was emitted.
Result(self, ret, exc, warned) ==
  [self |-> self, ret |-> ret, exc |-> exc, warned |-> warned]

-----------------------------------------------------------------------------
(* class ImportManager *)

\* ImportManager.__init__; root is TRUE when a root manager is given.
ImportManager(root, module_name) ==
  [root |-> root,
   module_name |-> module_name,
   import_statements |-> <<>>,
   imported_names |-> EmptyDict,
   defining_names |-> EmptyDict,
   short_name_pool |-> {},
   fix_modules |-> FALSE]

fix_modules(self) == [self EXCEPT !.fix_modules = TRUE]

\* An import statement is the sequence of its words, separated by one space
\* in the text.
create_import_statement(self, full_name, as_name) ==
  IF full_name \in NON_COMPOSITES THEN self
  ELSE
    With(split(full_name), LAMBDA parts :
    With(parts[Len(parts)], LAMBDA class_name :
      IF Len(parts) > 1
      THEN With(join(".", SubSeq(parts, 1, Len(parts) - 1)),
                LAMBDA module_name :
             IF self.module_name = None \/ ~(module_name = self.module_name)
             THEN With(IF class_name = as_name
                       THEN <<"from", module_name, "import", class_name>>
                       ELSE <<"from", module_name, "import", class_name,
                              "as", as_name>>,
                       LAMBDA import_statement :
                    [self EXCEPT !.import_statements =
                                   Append(@, import_statement)])
             ELSE self)
      ELSE With(IF class_name = as_name
                THEN <<"import", class_name>>
                ELSE <<"import", class_name, "as", as_name>>,
                LAMBDA import_statement :
             [self EXCEPT !.import_statements =
                            Append(@, import_statement)])))

\* The characters of the import statements, in the order of their code
\* points.
Chars == " .0123456789ABCDEFGHIJKLMNOPQRSTUVWXYZ_abcdefghijklmnopqrstuvwxyz"

\* The place of a character among Chars: the order of ord(c).
ord == [c \in {SubSeq(Chars, i, i) : i \in 1..Len(Chars)} |->
          CHOOSE i \in 1..Len(Chars) : SubSeq(Chars, i, i) = c]

\* a < b for the strings a and b that are the same before their i-th
\* characters: the first character that differs decides, and a proper
\* prefix is less.
RECURSIVE str_lt_from(_, _, _)
str_lt_from(a, b, i) ==
  IF i > Len(b) THEN FALSE
  ELSE IF i > Len(a) THEN TRUE
  ELSE IF ord[SubSeq(a, i, i)] # ord[SubSeq(b, i, i)]
  THEN ord[SubSeq(a, i, i)] < ord[SubSeq(b, i, i)]
  ELSE str_lt_from(a, b, i + 1)

\* a < b on str
str_lt(a, b) == str_lt_from(a, b, 1)

\* sorted(l) for a list of str, built from the first n items of l: each item
\* goes behind the items that are not greater.
RECURSIVE sorted_first(_, _)
sorted_first(l, n) ==
  IF n = 0 THEN <<>>
  ELSE
    With(sorted_first(l, n - 1), LAMBDA done :
    With(Cardinality({i \in DOMAIN done : ~str_lt(l[n], done[i])}),
         LAMBDA k :
      SubSeq(done, 1, k) \o <<l[n]>> \o SubSeq(done, k + 1, Len(done))))

sorted(l) == sorted_first(l, Len(l))

\* The import statements of a manager as the strings the code keeps.
statement_strings(self) ==
  [i \in DOMAIN self.import_statements |->
     join(" ", self.import_statements[i])]

\* get_import_statements giving the statements in the order kept.
get_import_statements_as_kept(self) ==
  Result(self, statement_strings(self), NoException, FALSE)

get_import_statements(self) ==
  Result(self, sorted(statement_strings(self)), NoException, FALSE)

\* The loop of __find_next_available, from the given counter on.
RECURSIVE find_from(_, _, _)
find_from(self, class_name, counter) ==
  With(class_name \o "_" \o ToString(counter), LAMBDA as_name :
    IF as_name \notin self.short_name_pool THEN as_name
    ELSE find_from(self, class_name, counter + 1))

\* __find_next_available with the counter started at 1.
find_next_available_from_one(self, class_name) ==
  find_from(self, class_name, 1)

find_next_available(self, class_name) == find_from(self, class_name, 0)

\* __assign_as_name that does not put a suffixed alias in the short name
\* pool.
assign_as_name_unpooled(self, full_name) ==
  LET parts == split(full_name)
      class_name == parts[Len(parts)]
  IN IF class_name \notin self.short_name_pool
     THEN Result([self EXCEPT !.short_name_pool = @ \cup {class_name}],
                 class_name, NoException, FALSE)
     ELSE Result(self, find_next_available(self, class_name),
                 NoException, FALSE)

assign_as_name(self, full_name) ==
  With(split(full_name), LAMBDA parts :
  With(parts[Len(parts)], LAMBDA class_name :
    IF class_name \notin self.short_name_pool
    THEN Result([self EXCEPT !.short_name_pool = @ \cup {class_name}],
                class_name, NoException, FALSE)
    ELSE With(find_next_available(self, class_name), LAMBDA as_name :
           Result([self EXCEPT !.short_name_pool = @ \cup {as_name}],
                  as_name, NoException, FALSE))))

\* add_defining_objects giving a class name the pool holds a suffixed alias,
\* as an import gets one, and no warning.
add_defining_objects_suffixed(self, full_name) ==
  IF self.fix_modules
  THEN Result(self, None, CodeGenerationException, FALSE)
  ELSE IF full_name \notin DOMAIN self.defining_names
  THEN LET assigned == assign_as_name(self, full_name)
       IN Result([assigned.self EXCEPT !.defining_names =
                                         DictSet(@, full_name, assigned.ret)],
                 None, NoException, FALSE)
  ELSE Result(self, None, NoException, FALSE)

add_defining_objects(self, full_name) ==
  IF self.fix_modules
  THEN Result(self, None, CodeGenerationException, FALSE)
  ELSE IF full_name \notin DOMAIN self.defining_names
  THEN With(split(full_name), LAMBDA parts :
       With(parts[Len(parts)], LAMBDA class_name :
       With(class_name \notin self.short_name_pool, LAMBDA fresh :
       With(IF fresh
            THEN [self EXCEPT !.short_name_pool = @ \cup {class_name}]
            ELSE self,
            LAMBDA pooled :
         Result([pooled EXCEPT !.defining_names =
                                  DictSet(@, full_name, class_name)],
                None, NoException, ~fresh)))))
  ELSE Result(self, None, NoException, FALSE)

\* add_object_to_import with the check of the fixed module made only where
\* the call would add the name.
add_object_to_import_late_check(self, full_name) ==
  IF full_name \notin DOMAIN self.imported_names
     /\ full_name \notin SUPPORTED_PRIMITIVES
  THEN IF self.fix_modules
       THEN Result(self, None, CodeGenerationException, FALSE)
       ELSE LET assigned == assign_as_name(self, full_name)
                as_name == assigned.ret
                named == [assigned.self EXCEPT !.imported_names =
                                                 DictSet(@, full_name, as_name)]
            IN Result(create_import_statement(named, full_name, as_name),
                      None, NoException, FALSE)
  ELSE Result(self, None, NoException, FALSE)

\* add_object_to_import without the test that the name is imported already.
add_object_to_import_again(self, full_name) ==
  IF self.fix_modules
  THEN Result(self, None, CodeGenerationException, FALSE)
  ELSE IF full_name \notin SUPPORTED_PRIMITIVES
  THEN With(assign_as_name(self, full_name), LAMBDA assigned :
       With(assigned.ret, LAMBDA as_name :
       With([assigned.self EXCEPT !.imported_names =
                                    DictSet(@, full_name, as_name)],
            LAMBDA named :
         Result(create_import_statement(named, full_name, as_name),
                None, NoException, FALSE))))
  ELSE Result(self, None, NoException, FALSE)

add_object_to_import(self, full_name) ==
  IF self.fix_modules
  THEN Result(self, None, CodeGenerationException, FALSE)
  ELSE IF full_name \notin DOMAIN self.imported_names
          /\ full_name \notin SUPPORTED_PRIMITIVES
  THEN With(assign_as_name(self, full_name), LAMBDA assigned :
       With(assigned.ret, LAMBDA as_name :
       With([assigned.self EXCEPT !.imported_names =
                                    DictSet(@, full_name, as_name)],
            LAMBDA named :
         Result(create_import_statement(named, full_name, as_name),
                None, NoException, FALSE))))
  ELSE Result(self, None, NoException, FALSE)

\* is_imported of a manager without a root.
root_is_imported(root_manager, class_name) ==
  class_name \in DOMAIN root_manager.imported_names

\* is_imported answering from the root manager without recording the name.
is_imported_unrecorded(self, root_manager, class_name) ==
  IF class_name \in DOMAIN self.imported_names
  THEN Result(self, True, NoException, FALSE)
  ELSE IF ~self.root
  THEN Result(self, False, NoException, FALSE)
  ELSE IF root_is_imported(root_manager, class_name) /\ ~self.fix_modules
  THEN Result(self, True, NoException, FALSE)
  ELSE Result(self, None, NoException, FALSE)

\* is_imported without the test of the fixed module.
is_imported_also_when_fixed(self, root_manager, class_name) ==
  IF class_name \in DOMAIN self.imported_names
  THEN Result(self, True, NoException, FALSE)
  ELSE IF ~self.root
  THEN Result(self, False, NoException, FALSE)
  ELSE IF root_is_imported(root_manager, class_name)
  THEN With(add_object_to_import(self, class_name), LAMBDA added :
         Result(added.self, True, added.exc, FALSE))
  ELSE Result(self, None, NoException, FALSE)

\* is_imported; root_manager is the manager self.__root refers to, read only
\* when self has one.  The value is True, False or (falling off the end) None.
is_imported(self, root_manager, class_name) ==
  IF class_name \in DOMAIN self.imported_names
  THEN Result(self, True, NoException, FALSE)
  ELSE IF ~self.root
  THEN Result(self, False, NoException, FALSE)
  ELSE IF root_is_imported(root_manager, class_name) /\ ~self.fix_modules
  THEN With(add_object_to_import(self, class_name), LAMBDA added :
         Result(added.self, True, added.exc, FALSE))
  ELSE Result(self, None, NoException, FALSE)

\* Python's truth value of what is_imported returns.
Truthy(v) == v = True

is_known_name(self, root_manager, full_class_name) ==
  IF full_class_name \in NON_COMPOSITES \/ full_class_name \in COMPOSITES
  THEN Result(self, True, NoException, FALSE)
  ELSE With(is_imported(self, root_manager, full_class_name), LAMBDA imp :
         IF Truthy(imp.ret) THEN imp
         ELSE Result(imp.self,
                     PyBool(full_class_name \in DOMAIN imp.self.defining_names),
                     imp.exc, FALSE))

get_name_to_use(self, root_manager, full_name) ==
  IF full_name \in SUPPORTED_PRIMITIVES
  THEN Result(self, full_name, NoException, FALSE)
  ELSE IF full_name \in DOMAIN self.defining_names
  THEN Result(self, self.defining_names[full_name], NoException, FALSE)
  ELSE With(is_imported(self, root_manager, full_name), LAMBDA imp :
         IF Truthy(imp.ret)
         THEN Result(imp.self, imp.self.imported_names[full_name],
                     NoException, FALSE)
         ELSE Result(imp.self, None, imp.exc, FALSE))

-----------------------------------------------------------------------------
(* class ImportManagerPool *)

ImportManagerPool ==
  [root_manager |-> ImportManager(FALSE, None),
   managers |-> EmptyDict,
   default_imports |-> <<>>]

add_default_import(p, full_name) ==
  [p EXCEPT !.default_imports = Append(@, full_name)]

\* The loop of get over the default imports, from the i-th on.
RECURSIVE import_defaults(_, _, _)
import_defaults(nm, defaults, i) ==
  IF i > Len(defaults) THEN nm
  ELSE import_defaults(add_object_to_import(nm, defaults[i]).self,
                       defaults, i + 1)

\* get: the pool afterwards; the manager returned is managers[module_name].
pool_get(p, module_name) ==
  IF module_name \in DOMAIN p.managers THEN p
  ELSE With(import_defaults(ImportManager(TRUE, module_name),
                            p.default_imports, 1),
            LAMBDA nm :
         [p EXCEPT !.managers = DictSet(@, module_name, nm)])

\* The manager of a pool by the name of its module, None for the root
\* manager, and the pool with that manager replaced.
Manager(p, id) == IF id = None THEN p.root_manager ELSE p.managers[id]

WithManager(p, id, im) ==
  IF id = None THEN [p EXCEPT !.root_manager = im]
  ELSE [p EXCEPT !.managers[id] = im]

fix_all_modules(p) ==
  [p EXCEPT !.root_manager = fix_modules(@),
            !.managers = [m \in DOMAIN @ |-> fix_modules(@[m])]]

-----------------------------------------------------------------------------
(* indent, indent_line *)

\* Config.indent
Config_indent == 4

\* " " * n
RECURSIVE spaces(_)
spaces(n) == IF n <= 0 THEN "" ELSE " " \o spaces(n - 1)

indent(level) == spaces(Config_indent * level)

indent_line(line, level) == IF line # "" THEN indent(level) \o line ELSE ""

\* What an f-string shows of a value: the string itself, None for None.
str(v) == IF v = None THEN "None" ELSE v

-----------------------------------------------------------------------------
(* class Property and its subclasses *)

\* The outcome of a constructor: the import manager afterwards, the object
\* (None when the constructor raised) and the exception raised.
Constructed(im, object, exc) ==
  [self |-> im, ret |-> IF exc = NoException THEN object ELSE None,
   exc |-> exc, warned |-> FALSE]

\* Property.__init__: the fields of every property, and the import of its
\* type.
Property(import_manager, kind, name, type_str, description, fields) ==
  With(add_object_to_import(import_manager, type_str), LAMBDA added :
    Constructed(added.self,
                [kind |-> kind, name |-> name, type_str |-> type_str,
                 description |-> description, default_val |-> None]
                  @@ fields,
                added.exc))

\* NonCompositeProperty.__init__
NonCompositeProperty(import_manager, root_manager, name, type_str, description, self_ref) ==
  With("typing.Optional", LAMBDA option_type :
  With(Property(import_manager, "NonCompositeProperty", name, type_str,
                description,
                [option_type |-> option_type, self_ref |-> self_ref]),
       LAMBDA super :
    IF super.exc # NoException THEN super
    ELSE
      With(add_object_to_import(super.self, option_type), LAMBDA option :
        IF option.exc # NoException
        THEN Constructed(option.self, None, option.exc)
        ELSE
          With(is_imported(option.self, root_manager, type_str), LAMBDA imp :
            Constructed(imp.self,
                        super.ret @@ [is_forte_type |-> Truthy(imp.ret)],
                        imp.exc)))))

\* The type of a DictProperty: FDict for a value type that is imported.
DictProperty_type_str(value_is_forte_type) ==
  IF value_is_forte_type THEN "forte.data.ontology.core.FDict"
  ELSE "typing.Dict"

\* DictProperty.__init__ with the test of the key type made after the
\* import manager has been asked for the value type and given the type of
\* the property.
DictProperty_late_key_test(import_manager, root_manager, name, key_type, value_type, description, self_ref) ==
  With(is_imported(import_manager, root_manager, value_type), LAMBDA imp :
  With(Property(imp.self, "DictProperty", name,
                DictProperty_type_str(Truthy(imp.ret)), description,
                [value_is_forte_type |-> Truthy(imp.ret),
                 key_type |-> key_type, value_type |-> value_type,
                 self_ref |-> self_ref]),
       LAMBDA super :
    IF super.exc # NoException THEN super
    ELSE IF ~(key_type = "str")
    THEN Constructed(super.self, None, CodeGenerationException)
    ELSE super))

\* DictProperty.__init__
DictProperty(import_manager, root_manager, name, key_type, value_type, description, self_ref) ==
  IF ~(key_type = "str")
  THEN Constructed(import_manager, None, CodeGenerationException)
  ELSE
    With(is_imported(import_manager, root_manager, value_type), LAMBDA imp :
      Property(imp.self, "DictProperty", name,
               DictProperty_type_str(Truthy(imp.ret)), description,
               [value_is_forte_type |-> Truthy(imp.ret),
                key_type |-> key_type, value_type |-> value_type,
                self_ref |-> self_ref]))

\* The type of a ListProperty: FList for an item type that is imported.
ListProperty_type_str(value_is_forte_type) ==
  IF value_is_forte_type THEN "forte.data.ontology.core.FList"
  ELSE "typing.List"

\* ListProperty.__init__
ListProperty(import_manager, root_manager, name, item_type, description, self_ref) ==
  With(is_imported(import_manager, root_manager, item_type), LAMBDA imp :
    Property(imp.self, "ListProperty", name,
             ListProperty_type_str(Truthy(imp.ret)), description,
             [value_is_forte_type |-> Truthy(imp.ret),
              item_type |-> item_type, self_ref |-> self_ref]))

\* repr(default_val), for the values a default has in the runs.
repr(v) == IF v = None THEN "None" ELSE "'" \o v \o "'"

\* The name of the element type left as it is, whatever self_ref says.
quoted_never(self_ref, type_str) == type_str

\* if self.self_ref: type_str = f"'{type_str}'"
quoted(self_ref, type_str) ==
  IF self_ref THEN "'" \o str(type_str) \o "'" ELSE type_str

\* NonCompositeProperty.internal_type_str
NonCompositeProperty_internal_type_str(self, import_manager, root_manager) ==
  With(get_name_to_use(import_manager, root_manager, self.option_type),
       LAMBDA option_type :
  With(get_name_to_use(option_type.self, root_manager, self.type_str),
       LAMBDA type_str :
    Result(type_str.self,
           str(option_type.ret) \o "["
             \o str(quoted(self.self_ref, type_str.ret)) \o "]",
           NoException, FALSE)))

\* DictProperty._full_class
DictProperty_full_class(self, import_manager, root_manager) ==
  With(get_name_to_use(import_manager, root_manager, self.type_str),
       LAMBDA composite_type :
  With(get_name_to_use(composite_type.self, root_manager, self.key_type),
       LAMBDA key_type :
  With(get_name_to_use(key_type.self, root_manager, self.value_type),
       LAMBDA value_type :
    Result(value_type.self,
           str(composite_type.ret) \o "[" \o str(key_type.ret) \o ", "
             \o str(quoted(self.self_ref, value_type.ret)) \o "]",
           NoException, FALSE))))

\* ListProperty._full_class
ListProperty_full_class(self, import_manager, root_manager) ==
  With(get_name_to_use(import_manager, root_manager, self.type_str),
       LAMBDA composite_type :
  With(get_name_to_use(composite_type.self, root_manager, self.item_type),
       LAMBDA item_type :
    Result(item_type.self,
           str(composite_type.ret) \o "["
             \o str(quoted(self.self_ref, item_type.ret)) \o "]",
           NoException, FALSE)))

\* internal_type_str of the class of the property.
internal_type_str(self, import_manager, root_manager) ==
  IF self.kind = "NonCompositeProperty"
  THEN NonCompositeProperty_internal_type_str(self, import_manager,
                                              root_manager)
  ELSE IF self.kind = "DictProperty"
  THEN DictProperty_full_class(self, import_manager, root_manager)
  ELSE ListProperty_full_class(self, import_manager, root_manager)

\* default_value of the class of the property.
default_value(self) ==
  IF self.kind = "NonCompositeProperty" THEN repr(self.default_val)
  ELSE IF self.kind = "DictProperty"
  THEN IF self.type_str = "typing.Dict" THEN "dict()" ELSE "FDict(self)"
  ELSE IF self.type_str = "typing.List" THEN "[]" ELSE "FList(self)"

\* Item.field_name
field_name(self) == self.name

\* Property.to_declaration
to_declaration(self, import_manager, root_manager, level) ==
  With(internal_type_str(self, import_manager, root_manager), LAMBDA type :
    Result(type.self,
           indent_line(field_name(self) \o ": " \o type.ret, level),
           type.exc, FALSE))

\* Property.to_init_code
to_init_code(self, import_manager, root_manager, level) ==
  With(internal_type_str(self, import_manager, root_manager), LAMBDA type :
    Result(type.self,
           indent_line("self." \o field_name(self) \o ": " \o type.ret
                         \o " = " \o default_value(self), level),
           type.exc, FALSE))

-----------------------------------------------------------------------------
(* indent_code, class ClassTypeDefinition, class EntryDefinition *)

\* Config.line_break, os.linesep where the line separator is the newline.
line_break == "\n"

\* The lines of the codes of a list, from the i-th code on: None gives no
\* line, the empty string one empty line, any other code its lines.
RECURSIVE code_lines_from(_, _)
code_lines_from(code_lines, i) ==
  IF i > Len(code_lines) THEN <<>>
  ELSE (IF code_lines[i] = None THEN <<>>
        ELSE IF code_lines[i] = "" THEN <<"">>
        ELSE split_by(code_lines[i], line_break))
       \o code_lines_from(code_lines, i + 1)

indent_code(code_lines, level, is_line_break) ==
  With(code_lines_from(code_lines, 1), LAMBDA lines :
    join(line_break, [i \in DOMAIN lines |-> indent_line(lines[i], level)])
      \o (IF is_line_break THEN "\n" ELSE ""))

\* str.strip(): the string without the white space at its ends.
Whitespace == {" ", "\t", "\n"}

RECURSIVE strip(_)
strip(s) ==
  IF Len(s) = 0 THEN s
  ELSE IF SubSeq(s, 1, 1) \in Whitespace THEN strip(SubSeq(s, 2, Len(s)))
  ELSE IF SubSeq(s, Len(s), Len(s)) \in Whitespace
  THEN strip(SubSeq(s, 1, Len(s) - 1))
  ELSE s

\* str.replace(old, new) for an old of one character.
RECURSIVE replace(_, _, _)
replace(s, old, new) ==
  IF Len(s) = 0 THEN s
  ELSE (IF SubSeq(s, 1, 1) = old THEN new ELSE SubSeq(s, 1, 1))
       \o replace(SubSeq(s, 2, Len(s)), old, new)

\* Property.to_description
Property_to_description(self, import_manager, root_manager, level) ==
  With(internal_type_str(self, import_manager, root_manager), LAMBDA type :
  With(field_name(self) \o " (" \o type.ret \o "):", LAMBDA desc :
    Result(type.self,
           IF self.description # None /\ strip(self.description) # ""
           THEN indent_line(desc \o "\t" \o self.description, level)
           ELSE indent_line(desc, level),
           type.exc, FALSE)))

\* ClassTypeDefinition.__init__
ClassTypeDefinition(name, type_str) == [name |-> name, type_str |-> type_str]

\* ClassTypeDefinition.to_code
ClassTypeDefinition_to_code(self, level) ==
  indent_code(<<self.name \o " = " \o self.type_str>>, level, FALSE)

\* EntryDefinition.__init__; the properties are those of one import manager.
EntryDefinition(name, class_type, init_args, properties, class_attributes, description) ==
  [name |-> name,
   description |-> IF description # None /\ description # ""
                   THEN description ELSE None,
   class_type |-> class_type,
   init_args |-> replace(IF init_args # None THEN init_args ELSE "",
                         "=", " = "),
   properties |-> properties,
   class_attributes |-> class_attributes]

\* The strings a method gives for the properties of a list, from the i-th
\* property on, in the order of the list; self of the result is the import
\* manager after the calls.
RECURSIVE property_lines(_, _, _, _, _, _)
property_lines(method, properties, i, import_manager, root_manager, level) ==
  IF i > Len(properties)
  THEN Result(import_manager, <<>>, NoException, FALSE)
  ELSE
    With(IF method = "to_declaration"
         THEN to_declaration(properties[i], import_manager, root_manager,
                             level)
         ELSE IF method = "to_init_code"
         THEN to_init_code(properties[i], import_manager, root_manager, level)
         ELSE Property_to_description(properties[i], import_manager,
                                      root_manager, level),
         LAMBDA line :
    With(property_lines(method, properties, i + 1, line.self, root_manager,
                        level),
         LAMBDA rest :
      Result(rest.self, <<line.ret>> \o rest.ret, NoException, FALSE)))

\* EntryDefinition.to_init_code
EntryDefinition_to_init_code(self, level) ==
  indent_line("def __init__(self, " \o self.init_args \o "):", level)

\* EntryDefinition.to_property_code
to_property_code(self, import_manager, root_manager, level) ==
  With(property_lines("to_declaration", self.properties, 1, import_manager,
                      root_manager, 0),
       LAMBDA lines :
    Result(lines.self,
           indent_code([i \in DOMAIN lines.ret |->
                          indent_line(lines.ret[i], 0)], level, FALSE),
           NoException, FALSE))

\* EntryDefinition.to_class_attribute_code
to_class_attribute_code(self, level) ==
  indent_code([i \in DOMAIN self.class_attributes |->
                 indent_line(ClassTypeDefinition_to_code(
                               self.class_attributes[i], 0), 0)],
              level, FALSE)

\* EntryDefinition.to_item_descs
to_item_descs(properties, import_manager, root_manager, title) ==
  With(property_lines("to_description", properties, 1, import_manager,
                      root_manager, 0),
       LAMBDA item_descs :
    Result(item_descs.self,
           IF Len(item_descs.ret) > 0
           THEN <<indent_line(title, 0)>>
                \o [i \in DOMAIN item_descs.ret |->
                      indent_line(item_descs.ret[i], 1)]
           ELSE <<>>,
           NoException, FALSE))

\* EntryDefinition.to_description
EntryDefinition_to_description(self, import_manager, root_manager, level) ==
  With(IF self.description = None THEN <<>> ELSE <<self.description \o "">>,
       LAMBDA class_desc :
  With(to_item_descs(self.properties, import_manager, root_manager,
                     "Attributes:"),
       LAMBDA item_descs :
  With(class_desc \o item_descs.ret, LAMBDA descs :
  With(indent_line("\"\"\"", 0), LAMBDA quotes :
    Result(item_descs.self,
           IF Len(descs) = 0 THEN ""
           ELSE indent_code(<<quotes>> \o descs \o <<quotes>>, level, FALSE),
           NoException, FALSE)))))

\* super_args of to_code: the names of the arguments of __init__.
RECURSIVE argument_names(_, _)
argument_names(items, i) ==
  IF i > Len(items) THEN <<>>
  ELSE <<strip(split_by(items[i], ":")[1])>>
       \o argument_names(items, i + 1)

\* EntryDefinition.to_code
to_code(self, import_manager, root_manager, level) ==
  With(join(", ", argument_names(split_by(self.init_args, ","), 1)),
       LAMBDA super_args :
  With(EntryDefinition_to_description(self, import_manager, root_manager, 1),
       LAMBDA raw_desc :
  With(IF raw_desc.ret = None THEN "" ELSE raw_desc.ret, LAMBDA desc :
  With(to_property_code(self, raw_desc.self, root_manager, 1),
       LAMBDA property_code :
  With(to_class_attribute_code(self, 1), LAMBDA class_attr_code :
  With(property_lines("to_init_code", self.properties, 1, property_code.self,
                      root_manager, 2),
       LAMBDA init_lines :
    Result(init_lines.self,
           indent_code(
             <<"", "", "@dataclass",
               "class " \o self.name \o "(" \o self.class_type \o "):">>
             \o (IF strip(desc) # "" THEN <<desc>> ELSE <<>>)
             \o <<"">>
             \o (IF property_code.ret # ""
                 THEN <<property_code.ret, "">> ELSE <<>>)
             \o (IF class_attr_code # ""
                 THEN <<class_attr_code, "">> ELSE <<>>)
             \o <<EntryDefinition_to_init_code(self, 1),
                  indent_line("super().__init__(" \o super_args \o ")", 2)>>
             \o init_lines.ret
             \o <<"">>,
             level, FALSE),
           NoException, FALSE)))))))

-----------------------------------------------------------------------------
(* class ModuleWriter *)

(* A path is the sequence of its components; the file system maps every    *)
(* path that exists to Dir or, for a file, to its text.                    *)

Dir == "<dir>"
FileNotFoundError == "FileNotFoundError"

AUTO_GEN_SIGNATURE == "***automatically_generated***"
AUTO_GEN_FILENAME == ".generated"

\* The file system a method works on, the paths it has created or written
\* so far and the exception raised.
Files(files, written, exc) == [fs |-> files, written |-> written, exc |-> exc]

\* os.path.exists
exists(files, path) == path \in DOMAIN files

\* os.mkdir
mkdir(st, path) ==
  IF ~exists(st.fs, SubSeq(path, 1, Len(path) - 1))
  THEN Files(st.fs, st.written, FileNotFoundError)
  ELSE Files(DictSet(st.fs, path, Dir), st.written \cup {path}, NoException)

\* Path(path).touch()
touch(st, path) ==
  IF ~exists(st.fs, SubSeq(path, 1, Len(path) - 1))
  THEN Files(st.fs, st.written, FileNotFoundError)
  ELSE Files(IF exists(st.fs, path) THEN st.fs ELSE DictSet(st.fs, path, ""),
             st.written \cup {path}, NoException)

\* with open(path, "w") as f: f.write(text)
write_text(st, path, text) ==
  IF ~exists(st.fs, SubSeq(path, 1, Len(path) - 1))
  THEN Files(st.fs, st.written, FileNotFoundError)
  ELSE Files(DictSet(st.fs, path, text), st.written \cup {path}, NoException)

\* split_file_path: the components of a path with / between them.
split_file_path(path) == split_by(path, "/")

\* An attribute that is declared and has not been assigned.
Unset == "<unset>"
AttributeError == "AttributeError"

\* ModuleWriter.__init__; the import managers are those of the one pool.
ModuleWriter(module_name) ==
  With(split(module_name), LAMBDA parts :
    [module_name |-> module_name,
     description |-> None,
     source_file |-> Unset,
     entries |-> <<>>,
     file_name |-> parts[Len(parts)],
     pkg_dir |-> join("/", split(join(".", SubSeq(parts, 1,
                                                  Len(parts) - 1))))])

\* EntryName.__init__
EntryName(entry_name) ==
  With(split(entry_name), LAMBDA entry_splits :
  With(join(".", SubSeq(entry_splits, 1, Len(entry_splits) - 2)),
       LAMBDA pkg :
    [module_name |-> pkg \o "." \o entry_splits[Len(entry_splits) - 1],
     class_name |-> entry_name,
     name |-> entry_splits[Len(entry_splits)],
     pkg_dir |-> join("/", split(pkg)),
     pkg |-> pkg,
     filename |-> entry_splits[Len(entry_splits) - 1]]))

\* ModuleWriter.add_entry
add_entry(self, entry_name, entry_item) ==
  [self EXCEPT !.entries = Append(@, <<entry_name, entry_item>>)]

\* The lines that tell the checkers of code to leave the file alone.
IGNORE_ERRORS_LINES ==
  <<"# " \o AUTO_GEN_SIGNATURE, "# flake8: noqa", "# mypy: ignore-errors",
    "# pylint: skip-file">>

get_ignore_error_lines(json_filepath) == IGNORE_ERRORS_LINES

\* ModuleWriter.to_description
ModuleWriter_to_description(self, level) ==
  IF self.source_file = Unset THEN Result(self, None, AttributeError, FALSE)
  ELSE Result(self,
              indent_code(get_ignore_error_lines(self.source_file)
                            \o <<"\"\"\"", self.description, "\"\"\"">>,
                          level, TRUE),
              NoException, FALSE)

\* ModuleWriter.to_import_code; self of the result is the pool afterwards.
to_import_code(self, import_managers, level) ==
  With(pool_get(import_managers, self.module_name), LAMBDA got :
  With(get_import_statements(Manager(got, self.module_name)),
       LAMBDA statements :
    Result(got, indent_code(statements.ret, level, TRUE),
           NoException, FALSE)))

\* to_header with the names of the export list in ascending order.
to_header_sorted(self, import_managers, level) ==
  With(ModuleWriter_to_description(self, 0), LAMBDA description :
    IF description.exc # NoException
    THEN Result(import_managers, None, description.exc, FALSE)
    ELSE
      With(to_import_code(self, import_managers, 0), LAMBDA import_code :
        Result(import_code.self,
               indent_code(
                 <<description.ret, import_code.ret,
                   indent_line("__all__ = [", 0),
                   indent_code([i \in DOMAIN self.entries |->
                                  "\""
                                    \o sorted([j \in DOMAIN self.entries |->
                                          self.entries[j][1].name])[i]
                                    \o "\","],
                               1, FALSE),
                   indent_line("]", 0)>>,
                 level, TRUE),
               NoException, FALSE)))

\* ModuleWriter.to_header; self of the result is the pool afterwards.
to_header(self, import_managers, level) ==
  With(ModuleWriter_to_description(self, 0), LAMBDA description :
    IF description.exc # NoException
    THEN Result(import_managers, None, description.exc, FALSE)
    ELSE
      With(to_import_code(self, import_managers, 0), LAMBDA import_code :
        Result(import_code.self,
               indent_code(
                 <<description.ret, import_code.ret,
                   indent_line("__all__ = [", 0),
                   indent_code([i \in DOMAIN self.entries |->
                                  "\"" \o self.entries[i][1].name \o "\","],
                               1, FALSE),
                   indent_line("]", 0)>>,
                 level, TRUE),
               NoException, FALSE)))

\* The code of the entries of a writer from the i-th on, one after the
\* other; self of the result is the pool afterwards.
RECURSIVE entries_code(_, _, _)
entries_code(self, import_managers, i) ==
  IF i > Len(self.entries) THEN Result(import_managers, "", NoException, FALSE)
  ELSE
    With(to_code(self.entries[i][2],
                 Manager(import_managers, self.module_name),
                 import_managers.root_manager, 0),
         LAMBDA code :
    With(entries_code(self,
                      WithManager(import_managers, self.module_name, code.self),
                      i + 1),
         LAMBDA rest :
      Result(rest.self, code.ret \o rest.ret, NoException, FALSE)))

\* The loop of make_module_dirs, from the directory level count on.
RECURSIVE make_dirs_from(_, _, _, _, _, _)
make_dirs_from(st, tempdir, destination, namespace_depth, entry_dir_split, count) ==
  IF count > Len(entry_dir_split) \/ st.exc # NoException THEN st
  ELSE
    LET rel_dir_path == SubSeq(entry_dir_split, 1, count)
        temp_path == tempdir \o rel_dir_path
        dest_path == destination \o rel_dir_path
        init_file_path == temp_path \o <<"__init__.py">>
    IN With(IF ~exists(st.fs, temp_path) THEN mkdir(st, temp_path) ELSE st,
            LAMBDA made :
       With(IF made.exc = NoException /\ ~exists(made.fs, dest_path)
            THEN touch(made, temp_path \o <<AUTO_GEN_FILENAME>>) ELSE made,
            LAMBDA touched :
       With(IF /\ touched.exc = NoException
               /\ count > namespace_depth
               /\ ~exists(made.fs, dest_path)
            THEN write_text(touched, init_file_path,
                            "# " \o AUTO_GEN_SIGNATURE \o "\n")
            ELSE touched,
            LAMBDA written :
         make_dirs_from(written, tempdir, destination, namespace_depth,
                        entry_dir_split, count + 1))))

\* make_module_dirs making in the destination the directories it is to make
\* in the temporary directory.
make_module_dirs_in_destination(self, files, tempdir, destination, namespace_depth) ==
  make_dirs_from(Files(files, {}, NoException), destination, destination,
                 namespace_depth, split_file_path(self.pkg_dir), 1)

\* make_module_dirs with an __init__.py for every level, whatever the
\* namespace depth.
make_module_dirs_init_everywhere(self, files, tempdir, destination, namespace_depth) ==
  make_dirs_from(Files(files, {}, NoException), tempdir, destination, 0,
                 split_file_path(self.pkg_dir), 1)

make_module_dirs(self, files, tempdir, destination, namespace_depth) ==
  make_dirs_from(Files(files, {}, NoException), tempdir, destination,
                 namespace_depth, split_file_path(self.pkg_dir), 1)

\* What write leaves: the file system, the paths created or written, the
\* exception raised and the pool of the import managers.
Written(st, import_managers) == st @@ [import_managers |-> import_managers]

\* ModuleWriter.write: the file is opened, and so made or emptied, before
\* the header and the code of the entries are computed and written.
write(self, import_managers, files, tempdir, destination, namespace_depth) ==
  With(make_module_dirs(self, files, tempdir, destination, namespace_depth),
       LAMBDA made :
  With(tempdir \o split_file_path(self.pkg_dir) \o <<self.file_name \o ".py">>,
       LAMBDA full_path :
    IF made.exc # NoException THEN Written(made, import_managers)
    ELSE
      With(write_text(made, full_path, ""), LAMBDA opened :
        IF opened.exc # NoException THEN Written(opened, import_managers)
        ELSE
          With(to_header(self, import_managers, 0), LAMBDA header :
            IF header.exc # NoException
            THEN Written(Files(opened.fs, opened.written, header.exc),
                         import_managers)
            ELSE
              With(entries_code(self, header.self, 1), LAMBDA code :
                Written(write_text(opened, full_path,
                                   header.ret \o code.ret),
                        code.self))))))

-----------------------------------------------------------------------------
(* class ModuleWriterPool *)

\* ModuleWriterPool.__init__: the writers by the names of their modules.
ModuleWriterPool == EmptyDict

\* ModuleWriterPool.get: the writers afterwards; the writer returned is
\* self[module_name].
ModuleWriterPool_get(self, module_name) ==
  IF module_name \in DOMAIN self THEN self
  ELSE DictSet(self, module_name, ModuleWriter(module_name))

-----------------------------------------------------------------------------
(* The import managers of one run: the root manager, named None, and the   *)
(* managers the pool has handed out, named by their modules.               *)

ManagerIds == {None} \cup DOMAIN pool.managers

Pool == "<pool>"

\* A call: the method, the manager it is called on (Pool: the pool), that
\* manager before the call, the argument, the value returned, the exception
\* raised and whether a warning was emitted.
Call(op, id, before, arg, ret, exc, warned) ==
  [op |-> op, mgr |-> id, before |-> before, arg |-> arg, ret |-> ret,
   exc |-> exc, warned |-> warned]

\* A call of a method of the manager id, with the result res.  The methods
\* of a manager are its own: op is never the name of a method of the pool.
Method(op, id, arg, res) ==
  /\ nops < MaxOps
  /\ pool' = WithManager(pool, id, res.self)
  /\ last' = Call(op, id, Manager(pool, id), arg, res.ret, res.exc,
                  res.warned)
  /\ nops' = nops + 1
  /\ UNCHANGED all_fixed
  /\ UNCHANGED treevars
  /\ UNCHANGED <<propvars, writervars, modulevars>>

\* A call of a method of the pool.
PoolMethod(op, arg, p) ==
  /\ nops < MaxOps
  /\ pool' = p
  /\ last' = Call(op, Pool, None, arg, None, NoException, FALSE)
  /\ nops' = nops + 1
  /\ all_fixed' = (all_fixed \/ op = "fix_all_modules")
  /\ UNCHANGED treevars
  /\ UNCHANGED <<propvars, writervars, modulevars>>

AddDefaultImport ==
  \E n \in DefaultNames : PoolMethod("add_default_import", n,
                                   add_default_import(pool, n))

Get == \E m \in ModuleNames : PoolMethod("get", m, pool_get(pool, m))

FixAllModules == PoolMethod("fix_all_modules", None, fix_all_modules(pool))

FixModules ==
  \E id \in ManagerIds :
    Method("fix_modules", id, None,
           Result(fix_modules(Manager(pool, id)), None, NoException, FALSE))

AddDefiningObjects ==
  \E id \in ManagerIds, n \in FullNames :
    Method("add_defining_objects", id, n,
           add_defining_objects(Manager(pool, id), n))

AddObjectToImport ==
  \E id \in ManagerIds :
    \E n \in IF id = None THEN KnownNames ELSE FullNames :
    Method("add_object_to_import", id, n,
           add_object_to_import(Manager(pool, id), n))

IsImported ==
  \E id \in ManagerIds, n \in FullNames :
    Method("is_imported", id, n,
           is_imported(Manager(pool, id), pool.root_manager, n))

IsKnownName ==
  \E id \in ManagerIds, n \in KnownNames :
    Method("is_known_name", id, n,
           is_known_name(Manager(pool, id), pool.root_manager, n))

GetNameToUse ==
  \E id \in ManagerIds, n \in FullNames :
    Method("get_name_to_use", id, n,
           get_name_to_use(Manager(pool, id), pool.root_manager, n))

GetImportStatements ==
  \E id \in ManagerIds :
    Method("get_import_statements", id, None,
           get_import_statements(Manager(pool, id)))

-----------------------------------------------------------------------------
(* The runs of one Property: the calls on the pool and its managers that   *)
(* set the import managers up, the constructor, and the methods that give  *)
(* the code of the property.                                               *)

\* The number of calls on the pool and its managers in one run.
MaxSetUpOps == 3

\* The number of calls of the methods of the property in one run.
MaxPropOps == 2

\* The entry types of the runs, the types of elements and values, the key
\* types, the name of the property and the levels of indentation.
TypeNames == {"pkg.a.Foo", "pkg.b.Foo"}
ElementTypes == TypeNames \cup {"int"}
KeyTypes == {"str", "int", "pkg.b.Foo"}
PropertyName == "items"
Levels == {0, 1}

\* A call of a constructor or a method of a property: the manager of the
\* property before the call, the arguments by their names, the string
\* returned (None by a constructor, whose object is prop) and the exception
\* raised.
PropCall(op, id, before, arg, ret, exc) ==
  [op |-> op, mgr |-> id, before |-> before, arg |-> arg, ret |-> ret,
   exc |-> exc]

\* No property: the constructor has not been called, or has raised.
NoProperty == [kind |-> None]

InitProp ==
  /\ prop = NoProperty
  /\ plast = PropCall("__init__", None, ImportManager(FALSE, None),
                      [name |-> PropertyName], None, NoException)
  /\ pops = 0

\* The calls that set the managers up: imports of the root manager, the
\* manager of the module pkg.a, its declarations, and the fixing of all.
SetUpImport ==
  /\ nops < MaxSetUpOps
  /\ AddObjectToImport
  /\ last'.mgr = None
  /\ last'.arg \in TypeNames

SetUpGet ==
  /\ nops < MaxSetUpOps
  /\ Get
  /\ last'.arg = "pkg.a"

SetUpDeclare ==
  /\ nops < MaxSetUpOps
  /\ AddDefiningObjects
  /\ last'.mgr # None
  /\ last'.arg \in TypeNames

SetUpFix ==
  /\ nops < MaxSetUpOps
  /\ FixAllModules

\* A constructor called with the manager id: the property is the object, the
\* manager what the constructor left of it.
New(op, id, arg, res) ==
  /\ plast.op = "__init__"
  /\ pool' = WithManager(pool, id, res.self)
  /\ prop' = IF res.exc = NoException
             THEN [import_manager |-> id] @@ res.ret ELSE NoProperty
  /\ plast' = PropCall(op, id, Manager(pool, id), arg, None, res.exc)
  /\ UNCHANGED <<pops, all_fixed, last, nops>>
  /\ UNCHANGED <<treevars, writervars, modulevars>>

NewNonCompositeProperty ==
  \E id \in DOMAIN pool.managers, type_str \in ElementTypes,
     self_ref \in BOOLEAN :
    New("NonCompositeProperty", id,
        [type_str |-> type_str, self_ref |-> self_ref],
        NonCompositeProperty(Manager(pool, id), pool.root_manager,
                             PropertyName, type_str, None, self_ref))

NewDictProperty ==
  \E id \in DOMAIN pool.managers, key_type \in KeyTypes,
     value_type \in ElementTypes, self_ref \in BOOLEAN :
    New("DictProperty", id,
        [key_type |-> key_type, value_type |-> value_type,
         self_ref |-> self_ref],
        DictProperty(Manager(pool, id), pool.root_manager, PropertyName,
                     key_type, value_type, None, self_ref))

NewListProperty ==
  \E id \in DOMAIN pool.managers, item_type \in ElementTypes,
     self_ref \in BOOLEAN :
    New("ListProperty", id,
        [item_type |-> item_type, self_ref |-> self_ref],
        ListProperty(Manager(pool, id), pool.root_manager, PropertyName,
                     item_type, None, self_ref))

\* A call of a method of the property.
PropMethod(op, arg, res) ==
  /\ pops < MaxPropOps
  /\ pool' = WithManager(pool, prop.import_manager, res.self)
  /\ plast' = PropCall(op, prop.import_manager,
                       Manager(pool, prop.import_manager), arg, res.ret,
                       res.exc)
  /\ pops' = pops + 1
  /\ UNCHANGED <<prop, all_fixed, last, nops>>
  /\ UNCHANGED <<treevars, writervars, modulevars>>

ToDeclaration ==
  /\ prop # NoProperty
  /\ \E level \in Levels :
       PropMethod("to_declaration", [level |-> level],
                  to_declaration(prop, Manager(pool, prop.import_manager),
                                 pool.root_manager, level))

ToInitCode ==
  /\ prop # NoProperty
  /\ \E level \in Levels :
       PropMethod("to_init_code", [level |-> level],
                  to_init_code(prop, Manager(pool, prop.import_manager),
                               pool.root_manager, level))

NextProp ==
  \/ SetUpImport
  \/ SetUpGet
  \/ SetUpDeclare
  \/ SetUpFix
  \/ NewNonCompositeProperty
  \/ NewDictProperty
  \/ NewListProperty
  \/ ToDeclaration
  \/ ToInitCode

-----------------------------------------------------------------------------
(* The runs of the ModuleWriters: what is made in the destination before   *)
(* the code is generated, and the calls of make_module_dirs and write.     *)

\* The number of calls of make_module_dirs and write in one run.
MaxWriterOps == 2

\* The temporary directory and the destination, two directories neither of
\* which is inside the other.
tempdir == <<"tempdir">>
destination == <<"destination">>

\* The modules written, the directories of packages that may be in the
\* destination already, and the namespace depths.
WriterModules == {"level1.level2.level3.something", "level1.other"}
PackageDirs == {<<"level1">>, <<"level1", "level2">>,
                <<"level1", "level2", "level3">>}
Depths == 0..3

\* A call of a method of the writer of a module: the file system before the
\* call, the paths the call created or wrote and the exception raised.
WriterCall(op, module_name, namespace_depth, before, written, exc) ==
  [op |-> op, module_name |-> module_name,
   namespace_depth |-> namespace_depth, before |-> before,
   written |-> written, exc |-> exc]

InitWriter ==
  /\ fs = (tempdir :> Dir)
  /\ wlast = WriterCall("__init__", None, 0, fs, {}, NoException)
  /\ wops = 0

\* Someone makes the destination, or the directory of a package in it,
\* before any code is generated.
MakeDestination ==
  \E path \in {<<>>} \cup PackageDirs :
    /\ wlast.op = "__init__"
    /\ ~exists(fs, destination \o path)
    /\ path # <<>> =>
         exists(fs, destination \o SubSeq(path, 1, Len(path) - 1))
    /\ fs' = DictSet(fs, destination \o path, Dir)
    /\ UNCHANGED <<wlast, wops>>
    /\ UNCHANGED <<imvars, treevars, propvars, modulevars>>

\* A call of a method of a writer: res is what the method leaves, the file
\* system, the paths written and the exception raised.
WriterMethod(op, module_name, namespace_depth, res) ==
  /\ wops < MaxWriterOps
  /\ fs' = res.fs
  /\ wlast' = WriterCall(op, module_name, namespace_depth, fs, res.written,
                         res.exc)
  /\ wops' = wops + 1
  /\ UNCHANGED <<treevars, propvars, modulevars>>

MakeModuleDirs ==
  \E module_name \in WriterModules, namespace_depth \in Depths :
    /\ WriterMethod("make_module_dirs", module_name, namespace_depth,
                    make_module_dirs(ModuleWriter(module_name), fs, tempdir,
                                     destination, namespace_depth))
    /\ UNCHANGED imvars

\* The pool of the import managers after a call of write.
PoolAfter(res) ==
  /\ pool' = res.import_managers
  /\ UNCHANGED <<all_fixed, last, nops>>

\* write of a writer without entries, its source file set or not; write
\* asks the pool for the import manager of the module.
Write ==
  \E module_name \in WriterModules, namespace_depth \in Depths,
     source_file \in {Unset, "onto.json"} :
    \E res \in {write([ModuleWriter(module_name)
                         EXCEPT !.source_file = source_file],
                      pool, fs, tempdir, destination, namespace_depth)} :
      /\ WriterMethod("write", module_name, namespace_depth, res)
      /\ PoolAfter(res)

NextWriter ==
  \/ MakeDestination
  \/ MakeModuleDirs
  \/ Write

-----------------------------------------------------------------------------
(* Properties of ModuleWriter, under SpecWriter *)

\* The step is a call of make_module_dirs or of write.
IsWriterCall == wops' = wops + 1

\* The path is the directory itself or is inside it.
IsUnder(path, dir) ==
  Len(path) >= Len(dir) /\ SubSeq(path, 1, Len(dir)) = dir

\* The paths the step created, removed or gave another content.
Changed ==
  {path \in DOMAIN fs \cup DOMAIN fs' :
     \/ exists(fs, path) # exists(fs', path)
     \/ exists(fs, path) /\ exists(fs', path) /\ fs[path] # fs'[path]}

\* C13: a call of make_module_dirs or of write creates and writes only
\* under the temporary directory; in the destination it creates nothing,
\* writes nothing and changes nothing.
C13_OnlyTempdirIsWritten ==
  [][IsWriterCall =>
       /\ \A path \in wlast'.written \cup Changed : IsUnder(path, tempdir)
       /\ \A path \in DOMAIN fs \cup DOMAIN fs' :
            IsUnder(path, destination) =>
              /\ exists(fs, path) = exists(fs', path)
              /\ exists(fs, path) => fs'[path] = fs[path]]_vars

\* C13: write has staged a module, directories, markers and the file of
\* the module, while the destination held the top-level package only.
C13_Witness ==
  /\ wlast.op = "write"
  /\ wlast.exc = NoException
  /\ wlast.module_name = "level1.level2.level3.something"
  /\ exists(wlast.before, destination \o <<"level1">>)
  /\ ~exists(wlast.before, destination \o <<"level1", "level2">>)
  /\ ~exists(wlast.before, tempdir \o <<"level1">>)
  /\ tempdir \o <<"level1", "level2", "level3", "something.py">>
       \in wlast.written
  /\ tempdir \o <<"level1", "level2", AUTO_GEN_FILENAME>> \in wlast.written
  /\ \A path \in DOMAIN fs : IsUnder(path, destination) =>
       path \in {destination, destination \o <<"level1">>}

\* The depth of the directory a path of the temporary directory names a
\* file of: 1 for the top-level package directory.
DepthOf(path) == Len(path) - Len(tempdir) - 1

\* The package-init files the last call wrote.
InitFilesWritten ==
  {path \in wlast.written : path[Len(path)] = "__init__.py"}

\* C16: make_module_dirs writes __init__.py only into directories whose
\* depth, from 1 at the top-level package directory, is at or beyond
\* namespace_depth; it writes none into a shallower directory.
C16_InitOnlyAtOrBeyondDepth ==
  wlast.op = "make_module_dirs" =>
    /\ \A path \in InitFilesWritten :
         DepthOf(path) >= wlast.namespace_depth
    /\ \A depth \in 1..(wlast.namespace_depth - 1) :
         \A path \in InitFilesWritten : DepthOf(path) # depth

\* C16: with namespace_depth 2 and three package levels, none of them in
\* the destination, the call wrote __init__.py into level3 and only there.
C16_Witness ==
  /\ wlast.op = "make_module_dirs"
  /\ wlast.exc = NoException
  /\ wlast.namespace_depth = 2
  /\ wlast.module_name = "level1.level2.level3.something"
  /\ ~exists(wlast.before, destination \o <<"level1">>)
  /\ InitFilesWritten =
       {tempdir \o <<"level1", "level2", "level3", "__init__.py">>}
  /\ fs[tempdir \o <<"level1", "level2", "level3", "__init__.py">>]
       = "# ***automatically_generated***\n"

\* The directory levels of the package of the module of the last call.
PackageLevels ==
  LET entry_dir_split == split_file_path(ModuleWriter(wlast.module_name).pkg_dir)
  IN {SubSeq(entry_dir_split, 1, count) : count \in 1..Len(entry_dir_split)}

\* C23: after make_module_dirs with namespace_depth <= 0, every directory
\* level of the package path holds an __init__.py in the temporary
\* directory, whatever the temporary directory and the destination held
\* before the call.
C23_InitInEveryLevel ==
  (/\ wlast.op = "make_module_dirs"
   /\ wlast.namespace_depth <= 0
   /\ wlast.exc = NoException)
  => \A level \in PackageLevels :
       exists(fs, tempdir \o level \o <<"__init__.py">>)

\* After make_module_dirs with namespace_depth <= 0, every level the
\* destination did not hold before the call has its __init__.py.
C23_WhereDestinationLacksLevel ==
  (/\ wlast.op = "make_module_dirs"
   /\ wlast.namespace_depth <= 0
   /\ wlast.exc = NoException)
  => \A level \in PackageLevels :
       ~exists(wlast.before, destination \o level)
         => exists(fs, tempdir \o level \o <<"__init__.py">>)

-----------------------------------------------------------------------------
(* The runs of the ModuleWriterPool: entries are made, added to the writers *)
(* the pool gives for their modules, and the modules are written.           *)

\* The number of entries made and added to the writers in one run.
MaxModuleOps == 2

WriterPoolModules == {"pkg.a", "pkg.b"}

\* The entries made, as the arguments of their constructors and of those of
\* their properties: an entry with no description and no property, one with
\* a description only, one with a property only, and one with a
\* description and two properties of which one has a description.
EntryArguments ==
  {[entry_name |-> "pkg.a.Foo", description |-> None, properties |-> <<>>],
   [entry_name |-> "pkg.a.Foo", description |-> "A thing.",
    properties |-> <<>>],
   [entry_name |-> "pkg.a.Bar", description |-> None,
    properties |-> <<[kind |-> "NonCompositeProperty", name |-> "count",
                      type_str |-> "int", description |-> None]>>],
   [entry_name |-> "pkg.a.Bar", description |-> "A thing.",
    properties |-> <<[kind |-> "ListProperty", name |-> "items",
                      type_str |-> "int", description |-> "The items."],
                     [kind |-> "NonCompositeProperty", name |-> "label",
                      type_str |-> "str", description |-> None]>>]}

\* The properties constructed from the arguments of a list, from the i-th
\* on, with the import manager of the module of their entry.
RECURSIVE construct(_, _, _, _)
construct(arguments, i, import_manager, root_manager) ==
  IF i > Len(arguments) THEN Constructed(import_manager, <<>>, NoException)
  ELSE
    With(IF arguments[i].kind = "ListProperty"
         THEN ListProperty(import_manager, root_manager, arguments[i].name,
                           arguments[i].type_str, arguments[i].description,
                           FALSE)
         ELSE NonCompositeProperty(import_manager, root_manager,
                                   arguments[i].name, arguments[i].type_str,
                                   arguments[i].description, FALSE),
         LAMBDA made :
      IF made.exc # NoException THEN Constructed(made.self, <<>>, made.exc)
      ELSE
        With(construct(arguments, i + 1, made.self, root_manager),
             LAMBDA rest :
          Constructed(rest.self, <<made.ret>> \o rest.ret, rest.exc)))

\* A call on the pool of writers, a writer or an entry: the module, the
\* arguments by their names, the string returned and the exception raised.
ModuleCall(op, module_name, arg, ret, exc) ==
  [op |-> op, module_name |-> module_name, arg |-> arg, ret |-> ret,
   exc |-> exc]

\* No entry: none has been made.
NoEntry == [kind |-> None]

InitModule ==
  /\ module_writers = ModuleWriterPool
  /\ entry = NoEntry
  /\ mlast = ModuleCall("__init__", None, [level |-> 0], None, NoException)
  /\ mops = 0

\* ModuleWriterPool.get
GetWriter ==
  \E module_name \in WriterPoolModules :
    /\ module_writers' = ModuleWriterPool_get(module_writers, module_name)
    /\ mlast' = ModuleCall("get", module_name, [level |-> 0], None,
                           NoException)
    /\ UNCHANGED <<entry, mops, fs>>
    /\ UNCHANGED <<imvars, wlast, wops>>
    /\ UNCHANGED <<treevars, propvars>>

\* writer.source_file = ..., by the owner of the writer.
SetSourceFile ==
  \E module_name \in DOMAIN module_writers :
    /\ module_writers' =
         [module_writers EXCEPT ![module_name].source_file = "onto.json"]
    /\ mlast' = ModuleCall("source_file", module_name, [level |-> 0], None,
                           NoException)
    /\ UNCHANGED <<entry, mops, fs>>
    /\ UNCHANGED <<imvars, wlast, wops>>
    /\ UNCHANGED <<treevars, propvars>>

\* An entry of the name en, its properties constructed, is made and added
\* to the writer the pool gives for its module; got is the pool of the
\* import managers after it gave the import manager of the module.
Added(en, got, description, properties) ==
  /\ mops < MaxModuleOps
  /\ properties.exc = NoException
  /\ pool' = WithManager(got, en.module_name, properties.self)
  /\ entry' = [en |-> en,
               item |-> EntryDefinition(en.name, "Entry", "pack: DataPack",
                                        properties.ret, <<>>, description)]
  /\ module_writers' =
       [ModuleWriterPool_get(module_writers, en.module_name)
          EXCEPT ![en.module_name] = add_entry(@, en, entry'.item)]
  /\ mlast' = ModuleCall("add_entry", en.module_name, [level |-> 0], None,
                         NoException)
  /\ mops' = mops + 1
  /\ UNCHANGED <<fs, all_fixed, last, nops, wlast, wops>>
  /\ UNCHANGED <<treevars, propvars>>

\* EntryDefinition(...), its properties constructed with the import manager
\* the pool of import managers gives for the module of the entry, and
\* module_writers.get(en.module_name).add_entry(en, entry_item)
AddEntry ==
  \E arguments \in EntryArguments :
    \E en \in {EntryName(arguments.entry_name)} :
      \E got \in {pool_get(pool, en.module_name)} :
        \E properties \in {construct(arguments.properties, 1,
                                     Manager(got, en.module_name),
                                     got.root_manager)} :
          Added(en, got, arguments.description, properties)

\* A call of to_code of the entry made last, or of write of a writer: the
\* pool of import managers and the file system afterwards.
ModuleMethod(op, module_name, level, import_managers, files, ret, exc) ==
  /\ pool' = import_managers
  /\ fs' = files
  /\ mlast' = ModuleCall(op, module_name, [level |-> level], ret, exc)
  /\ UNCHANGED <<module_writers, entry, mops>>
  /\ UNCHANGED <<all_fixed, last, nops, wlast, wops>>
  /\ UNCHANGED <<treevars, propvars>>

\* EntryDefinition.to_code
ToCode ==
  \E level \in Levels :
    /\ entry # NoEntry
    /\ \E res \in {to_code(entry.item, Manager(pool, entry.en.module_name),
                             pool.root_manager, level)} :
         ModuleMethod("to_code", entry.en.module_name, level,
                      WithManager(pool, entry.en.module_name, res.self), fs,
                      res.ret, res.exc)

\* ModuleWriter.write, with no namespace packaging.
WriteModule ==
  \E module_name \in DOMAIN module_writers :
    \E res \in {write(module_writers[module_name], pool, fs, tempdir,
                       destination, 0)} :
      ModuleMethod("write", module_name, 0, res.import_managers, res.fs,
                   None, res.exc)

NextModule ==
  \/ GetWriter
  \/ SetSourceFile
  \/ AddEntry
  \/ ToCode
  \/ WriteModule

-----------------------------------------------------------------------------
(* class EntryTree *)

(* The nodes of a tree are kept in a sequence, in the order of their        *)
(* creation; a reference to a node is its index, and 0 is no node (None).  *)
(* The root is node 1.                                                     *)

NoNode == 0

\* EntryTreeNode.__init__
EntryTreeNode(name) ==
  [name |-> name, attributes |-> {}, children |-> <<>>, parent |-> NoNode]

\* EntryTree.__init__
EntryTree == <<EntryTreeNode("root")>>

root == 1

\* search: the first node of that name in depth-first order, or None.
RECURSIVE search(_, _, _), search_children(_, _, _, _)
search(t, node, search_node_name) ==
  IF t[node].name = search_node_name THEN node
  ELSE search_children(t, t[node].children, 1, search_node_name)

search_children(t, children, i, search_node_name) ==
  IF i > Len(children) THEN NoNode
  ELSE LET tmp == search(t, children[i], search_node_name)
       IN IF tmp # NoNode THEN tmp
          ELSE search_children(t, children, i + 1, search_node_name)

\* add_node without the search for the entry: a new node at every call.
add_node_always_new(t, curr_entry_name, parent_entry_name, curr_entry_attr) ==
  LET curr_entry_node == Len(t) + 1
      t1 == Append(t, [EntryTreeNode(curr_entry_name)
                         EXCEPT !.attributes = curr_entry_attr])
      found_parent == search(t1, root, parent_entry_name)
      parent_in_tree == IF found_parent = NoNode THEN Len(t1) + 1
                        ELSE found_parent
      t2 == IF found_parent = NoNode
            THEN [Append(t1, [EntryTreeNode(parent_entry_name)
                                EXCEPT !.parent = root])
                    EXCEPT ![root].children = Append(@, parent_in_tree)]
            ELSE t1
  IN [t2 EXCEPT ![parent_in_tree].children = Append(@, curr_entry_node),
                ![curr_entry_node].parent = parent_in_tree]

\* add_node that appends the node it makes for a missing parent to the
\* root's children and does not set that node's parent.
add_node_parent_unset(t, curr_entry_name, parent_entry_name, curr_entry_attr) ==
  LET found_node == search(t, root, curr_entry_name)
  IN IF found_node = NoNode
     THEN LET curr_entry_node == Len(t) + 1
              t1 == Append(t, [EntryTreeNode(curr_entry_name)
                                 EXCEPT !.attributes = curr_entry_attr])
              found_parent == search(t1, root, parent_entry_name)
              parent_in_tree == IF found_parent = NoNode THEN Len(t1) + 1
                                ELSE found_parent
              t2 == IF found_parent = NoNode
                    THEN [Append(t1, EntryTreeNode(parent_entry_name))
                            EXCEPT ![root].children = Append(@, parent_in_tree)]
                    ELSE t1
          IN [t2 EXCEPT ![parent_in_tree].children = Append(@, curr_entry_node),
                        ![curr_entry_node].parent = parent_in_tree]
     ELSE [t EXCEPT ![found_node].attributes = curr_entry_attr]

add_node(t, curr_entry_name, parent_entry_name, curr_entry_attr) ==
  LET found_node == search(t, root, curr_entry_name)
  IN IF found_node = NoNode
     THEN LET curr_entry_node == Len(t) + 1
              t1 == Append(t, [EntryTreeNode(curr_entry_name)
                                 EXCEPT !.attributes = curr_entry_attr])
              found_parent == search(t1, root, parent_entry_name)
              parent_in_tree == IF found_parent = NoNode THEN Len(t1) + 1
                                ELSE found_parent
              t2 == IF found_parent = NoNode
                    THEN [Append(t1, [EntryTreeNode(parent_entry_name)
                                        EXCEPT !.parent = root])
                            EXCEPT ![root].children = Append(@, parent_in_tree)]
                    ELSE t1
          IN [t2 EXCEPT ![parent_in_tree].children = Append(@, curr_entry_node),
                        ![curr_entry_node].parent = parent_in_tree]
     ELSE [t EXCEPT ![found_node].attributes = curr_entry_attr]

\* set(val[0] for val in attributes)
AttributeNames(attributes) == {val[1] : val \in attributes}

\* The while loop of collect_parents from found_node on: the dict afterwards,
\* and the ValueError of the parent property when the node has no parent.
RECURSIVE collect_from(_, _, _)
collect_from(t, found_node, node_dict) ==
  LET parent == t[found_node].parent
  IN IF parent = NoNode THEN Result(node_dict, None, ValueError, FALSE)
     ELSE IF t[parent].name # "root"
     THEN collect_from(t, parent,
                       DictSet(node_dict, t[parent].name,
                               AttributeNames(t[parent].attributes)))
     ELSE Result(node_dict, None, NoException, FALSE)

\* The for loop of collect_parents over the keys of the dict given, which
\* input_keys lists in the dict's order, from the i-th on.
RECURSIVE collect_keys(_, _, _, _)
collect_keys(t, input_keys, i, node_dict) ==
  IF i > Len(input_keys) THEN Result(node_dict, None, NoException, FALSE)
  ELSE LET found_node == search(t, root, input_keys[i])
       IN IF found_node # NoNode
          THEN LET walked == collect_from(t, found_node, node_dict)
               IN IF walked.exc # NoException THEN walked
                  ELSE collect_keys(t, input_keys, i + 1, walked.self)
          ELSE collect_keys(t, input_keys, i + 1, node_dict)

\* collect_parents that first gives every key that names a node the
\* attribute names of that node.
collect_parents_nodes_too(t, input_keys, node_dict) ==
  collect_keys(t, input_keys, 1,
               [k \in DOMAIN node_dict |->
                  IF search(t, root, k) # NoNode
                  THEN AttributeNames(t[search(t, root, k)].attributes)
                  ELSE node_dict[k]])

\* collect_parents: self of the result is node_dict afterwards.
collect_parents(t, input_keys, node_dict) ==
  collect_keys(t, input_keys, 1, node_dict)

\* list(s): the elements of a set in an order the program does not choose.
list(s) ==
  CHOOSE l \in [1..Cardinality(s) -> s] : {l[i] : i \in DOMAIN l} = s

\* set(tuple(attr) for attr in attributes)
set(l) == {l[i] : i \in DOMAIN l}

RECURSIVE node_to_dict(_, _), children_to_dicts(_, _, _)
node_to_dict(t, node) ==
  [name |-> t[node].name,
   attributes |-> list(t[node].attributes),
   children |-> children_to_dicts(t, t[node].children, 1)]

children_to_dicts(t, children, i) ==
  IF i > Len(children) THEN <<>>
  ELSE <<node_to_dict(t, children[i])>> \o children_to_dicts(t, children, i + 1)

todict(t) == node_to_dict(t, root)

\* fromdict, and its loop over the children of tree_dict from the i-th on.
RECURSIVE fromdict(_, _, _), fromdict_children(_, _, _)
fromdict(t, tree_dict, parent_entry_name) ==
  LET t1 == IF parent_entry_name = None
            THEN <<[EntryTreeNode(tree_dict.name)
                      EXCEPT !.attributes = set(tree_dict.attributes)]>>
            ELSE add_node(t, tree_dict.name, parent_entry_name,
                          set(tree_dict.attributes))
  IN fromdict_children(t1, tree_dict, 1)

fromdict_children(t, tree_dict, i) ==
  IF i > Len(tree_dict.children) THEN t
  ELSE fromdict_children(fromdict(t, tree_dict.children[i], tree_dict.name),
                         tree_dict, i + 1)

-----------------------------------------------------------------------------
(* The runs of one EntryTree: the add_node calls that build it, and then   *)
(* the calls that read it.                                                 *)

\* The number of add_node calls in one run.
MaxTreeOps == 2

EntryNames == {"root", "Top", "Parent", "Child"}
AttributeSets == {{}, {<<"a", "str">>, <<"b", "int">>}}
\* The dicts given to collect_parents: their keys, in the dict's order, and
\* the value they give every key.
KeyLists == {<<"Child">>, <<"Parent">>, <<"Parent", "Child">>,
             <<"Child", "Other">>}
KeyValues == {{}, {"q"}}

TreeCall(op, arg, ret, exc) == [op |-> op, arg |-> arg, ret |-> ret, exc |-> exc]

InitTree ==
  /\ tree = EntryTree
  /\ declared = EmptyDict
  /\ tlast = TreeCall("__init__", None, None, NoException)
  /\ tops = 0

AddNode ==
  \E c \in EntryNames, p \in EntryNames, attr \in AttributeSets :
    /\ tops < MaxTreeOps
    /\ tlast.op \in {"__init__", "add_node"}
    /\ tree' = add_node(tree, c, p, attr)
    /\ declared' = DictSet(declared, c,
                           (IF c \in DOMAIN declared THEN declared[c] ELSE {})
                             \cup {p})
    /\ tlast' = TreeCall("add_node", <<c, p, attr>>, None, NoException)
    /\ tops' = tops + 1
    /\ UNCHANGED imvars
    /\ UNCHANGED <<propvars, writervars, modulevars>>

CollectParents ==
  \E keys \in KeyLists, v \in KeyValues :
    LET node_dict == [k \in set(keys) |-> v]
        res == collect_parents(tree, keys, node_dict)
    IN /\ tlast' = TreeCall("collect_parents", node_dict, res.self, res.exc)
       /\ UNCHANGED <<tree, declared, tops>>
       /\ UNCHANGED imvars
       /\ UNCHANGED <<propvars, writervars, modulevars>>

ToDict ==
  /\ tlast' = TreeCall("todict", None, todict(tree), NoException)
  /\ UNCHANGED <<tree, declared, tops>>
  /\ UNCHANGED imvars
  /\ UNCHANGED <<propvars, writervars, modulevars>>

\* fromdict on a fresh EntryTree, given what todict returned.
FromDict ==
  /\ tlast.op = "todict"
  /\ tlast' = TreeCall("fromdict", tlast.ret,
                       fromdict(EntryTree, tlast.ret, None), NoException)
  /\ UNCHANGED <<tree, declared, tops>>
  /\ UNCHANGED imvars
  /\ UNCHANGED <<propvars, writervars, modulevars>>

NextTree ==
  \/ AddNode
  \/ CollectParents
  \/ ToDict
  \/ FromDict


-----------------------------------------------------------------------------
(* The runs of the import managers. *)

InitIM ==
  /\ pool = ImportManagerPool
  /\ all_fixed = FALSE
  /\ last = Call("__init__", Pool, None, None, None, NoException, FALSE)
  /\ nops = 0

Init == InitIM /\ InitTree /\ InitProp /\ InitWriter /\ InitModule

NextIM ==
  \/ AddDefaultImport
  \/ Get
  \/ FixAllModules
  \/ FixModules
  \/ AddDefiningObjects
  \/ AddObjectToImport
  \/ IsImported
  \/ IsKnownName
  \/ GetNameToUse
  \/ GetImportStatements

SpecIM == Init /\ [][NextIM]_vars

SpecTree == Init /\ [][NextTree]_vars

SpecProp == Init /\ [][NextProp]_vars

SpecWriter == Init /\ [][NextWriter]_vars

SpecModule == Init /\ [][NextModule]_vars

-----------------------------------------------------------------------------
(* Properties of the import managers, under SpecIM. *)

IsAdd(call) == call.op \in {"add_defining_objects", "add_object_to_import"}

\* The step is a call of a method of a manager: that manager before and
\* after the call.
Before == Manager(pool, last'.mgr)
After == Manager(pool', last'.mgr)

\* The four collections of a manager are the same in a and b.
SameTable(a, b) ==
  /\ a.imported_names = b.imported_names
  /\ a.defining_names = b.defining_names
  /\ a.short_name_pool = b.short_name_pool
  /\ a.import_statements = b.import_statements

\* C1: once a manager is fixed (fix_modules), every add_defining_objects and
\* add_object_to_import on it raises CodeGenerationException, for any name,
\* and leaves its imported names, its defining names, its short name pool
\* and its import statements as they were; a fixed manager stays fixed.
C1_FixedManagerRejectsAdds ==
  [][ /\ \A id \in ManagerIds :
           Manager(pool, id).fix_modules => Manager(pool', id).fix_modules
      /\ (IsAdd(last') /\ Before.fix_modules) =>
           /\ last'.exc = CodeGenerationException
           /\ SameTable(After, Before)
           /\ After.fix_modules ]_vars

\* A fixed manager was asked to import a name it had imported already, and
\* raised.
C1_Witness ==
  /\ last.op = "add_object_to_import"
  /\ last.before.fix_modules
  /\ last.arg \in DOMAIN last.before.imported_names
  /\ last.exc = CodeGenerationException

\* The aliases a manager holds for a full name, imported or declared.
Aliases(im, full_name) ==
  (IF full_name \in DOMAIN im.imported_names
   THEN {im.imported_names[full_name]} ELSE {})
  \cup (IF full_name \in DOMAIN im.defining_names
        THEN {im.defining_names[full_name]} ELSE {})

\* C2: in every manager, no two different full names, declared or imported,
\* have the same alias.
C2_AliasesPairwiseDistinct ==
  \A id \in ManagerIds :
    \A f, g \in FullNames :
      f # g => Aliases(Manager(pool, id), f)
                 \cap Aliases(Manager(pool, id), g) = {}

\* The alias a name is to get from a short name pool: its last segment when
\* the pool does not hold it, else the segment with the least k >= 0 such
\* that <segment>_<k> is not in the pool.
ExpectedAlias(short_name_pool, full_name) ==
  LET parts == split(full_name)
      segment == parts[Len(parts)]
      Suffixed(k) == segment \o "_" \o ToString(k)
      free == {k \in 0..Cardinality(short_name_pool) :
                 Suffixed(k) \notin short_name_pool}
  IN IF segment \notin short_name_pool THEN segment
     ELSE Suffixed(CHOOSE k \in free : \A j \in free : k <= j)

\* C3: add_object_to_import of a name that is no primitive and not imported
\* yet gives it its last segment as alias when the short name pool does not
\* hold that segment, else the first free <segment>_<k>, k = 0, 1, 2, ...;
\* pkg.a.Foo and then pkg.b.Foo get the aliases Foo and Foo_0.
C3_AliasOfNewImport ==
  [][ (/\ last'.op = "add_object_to_import"
       /\ ~Before.fix_modules
       /\ last'.arg \notin SUPPORTED_PRIMITIVES
       /\ last'.arg \notin DOMAIN Before.imported_names) =>
        /\ last'.arg \in DOMAIN After.imported_names
        /\ After.imported_names[last'.arg]
             = ExpectedAlias(Before.short_name_pool, last'.arg)
        /\ (Before.short_name_pool = {} /\ last'.arg = "pkg.a.Foo") =>
             After.imported_names = ("pkg.a.Foo" :> "Foo")
        /\ (/\ Before.imported_names = ("pkg.a.Foo" :> "Foo")
            /\ Before.short_name_pool = {"Foo"}
            /\ last'.arg = "pkg.b.Foo") =>
             After.imported_names
               = ("pkg.a.Foo" :> "Foo") @@ ("pkg.b.Foo" :> "Foo_0") ]_vars

\* An import found both the segment and <segment>_0 taken.
C3_Witness ==
  /\ last.op = "add_object_to_import"
  /\ last.mgr # None
  /\ last.arg = "pkg.b.Foo"
  /\ {"Foo", "Foo_0"} \subseteq last.before.short_name_pool
  /\ Manager(pool, last.mgr).imported_names["pkg.b.Foo"] = "Foo_1"

\* C4: after fix_all_modules on the pool, add_defining_objects and
\* add_object_to_import raise on the root manager and on every manager the
\* pool's get returns, first got before the call or after it.
C4_AllManagersFixed ==
  (all_fixed /\ IsAdd(last)) => last.exc = CodeGenerationException

\* The full name an import statement imports.
StatementName(statement) ==
  IF statement[1] = "from" THEN statement[2] \o "." \o statement[4]
  ELSE statement[2]

ImportedOnce(im) ==
  LET statements == im.import_statements
  IN /\ \A i, j \in DOMAIN statements :
          i # j => /\ statements[i] # statements[j]
                   /\ StatementName(statements[i])
                        # StatementName(statements[j])
     /\ \A i \in DOMAIN statements :
          StatementName(statements[i]) \in DOMAIN im.imported_names

\* C5: a manager's import statements hold at most one statement for each
\* full name, each for a name it imports, and no statement twice; and
\* add_object_to_import of a name imported already, or of a primitive,
\* changes nothing in the manager.
C5_ImportedOnce ==
  /\ [](\A id \in ManagerIds : ImportedOnce(Manager(pool, id)))
  /\ [][ (/\ last'.op = "add_object_to_import"
           /\ \/ last'.arg \in DOMAIN Before.imported_names
              \/ last'.arg \in SUPPORTED_PRIMITIVES) =>
            After = Before ]_vars

\* A manager with an import statement for a name was asked to import that
\* name again.
C5_Witness ==
  /\ last.op = "add_object_to_import"
  /\ last.exc = NoException
  /\ last.arg \in DOMAIN last.before.imported_names
  /\ \E i \in DOMAIN last.before.import_statements :
       StatementName(last.before.import_statements[i]) = last.arg

\* C6: get_name_to_use on a fixed manager with a root, for a name the root
\* has imported and the manager has neither imported nor declared, returns
\* the root's alias of the name.
C6_FixedChildUsesRootAlias ==
  (/\ last.op = "get_name_to_use"
   /\ last.mgr # None
   /\ last.before.fix_modules
   /\ last.arg \in DOMAIN pool.root_manager.imported_names
   /\ last.arg \notin DOMAIN last.before.imported_names
   /\ last.arg \notin DOMAIN last.before.defining_names) =>
    last.ret = pool.root_manager.imported_names[last.arg]

\* The module of a dotted name: what is before its last segment.
NameModule(full_name) ==
  join(".", SubSeq(split(full_name), 1, Len(split(full_name)) - 1))

\* The step is a lookup, on a manager with a root that is not fixed, of a
\* name the manager has neither declared nor imported and the root manager
\* has imported.
LookupOfRootImport ==
  /\ last'.op \in {"is_imported", "is_known_name", "get_name_to_use"}
  /\ last'.mgr # None
  /\ ~Before.fix_modules
  /\ last'.arg \notin DOMAIN Before.imported_names
  /\ last'.arg \notin DOMAIN Before.defining_names
  /\ last'.arg \in DOMAIN pool.root_manager.imported_names

\* The manager has recorded the import of the name by the step: the name
\* has the alias an import gives it, and a statement when its module is
\* not the manager's.
RecordsImport ==
  /\ last'.arg \in DOMAIN After.imported_names
  /\ After.imported_names[last'.arg]
       = ExpectedAlias(Before.short_name_pool, last'.arg)
  /\ NameModule(last'.arg) # After.module_name =>
       \E i \in DOMAIN After.import_statements :
         StatementName(After.import_statements[i]) = last'.arg

\* C17 as stated: every such lookup returns an alias of the name and records
\* the import, the manager's imported names holding the alias returned.
C17_LookupReturnsRecordedAlias ==
  [][ LookupOfRootImport =>
        /\ RecordsImport
        /\ After.imported_names[last'.arg] = last'.ret ]_vars

\* C17, amended: get_name_to_use returns the alias and records the import;
\* is_imported returns True and records it; is_known_name returns True, and
\* records it unless the name is a composite, which it answers for without
\* asking the root and leaves the manager as it was.
C17_LookupRecordsImport ==
  [][ LookupOfRootImport =>
        /\ last'.exc = NoException
        /\ last'.op = "get_name_to_use" =>
             /\ RecordsImport
             /\ last'.ret = After.imported_names[last'.arg]
        /\ last'.op = "is_imported" =>
             /\ RecordsImport
             /\ last'.ret = True
        /\ last'.op = "is_known_name" =>
             /\ last'.ret = True
             /\ IF last'.arg \in COMPOSITES THEN After = Before
                ELSE RecordsImport ]_vars

\* A manager that had declared pkg.a.Foo was asked the name to use for
\* pkg.b.Foo, which the root manager had imported as Foo: it answered Foo_0
\* and holds the statement importing it under that alias.
C17_Witness ==
  /\ last.op = "get_name_to_use"
  /\ last.mgr # None
  /\ ~last.before.fix_modules
  /\ last.arg = "pkg.b.Foo"
  /\ last.arg \notin DOMAIN last.before.imported_names
  /\ last.arg \in DOMAIN pool.root_manager.imported_names
  /\ pool.root_manager.imported_names["pkg.b.Foo"] = "Foo"
  /\ last.ret = "Foo_0"
  /\ last.arg \in DOMAIN Manager(pool, last.mgr).imported_names
  /\ Manager(pool, last.mgr).imported_names["pkg.b.Foo"] = "Foo_0"
  /\ \E i \in DOMAIN Manager(pool, last.mgr).import_statements :
       Manager(pool, last.mgr).import_statements[i]
         = <<"from", "pkg.b", "import", "Foo", "as", "Foo_0">>

\* The number of times x is an item of the list l.
Count(l, x) == Cardinality({i \in DOMAIN l : l[i] = x})

\* C14: get_import_statements returns the import statements of the manager,
\* each as often as the manager holds it, in ascending lexicographic order:
\* no statement returned is less than the one before it.
C14_StatementsAscending ==
  last.op = "get_import_statements" =>
    /\ last.exc = NoException
    /\ Len(last.ret) = Len(last.before.import_statements)
    /\ \A i \in DOMAIN last.ret :
         Count(last.ret, last.ret[i])
           = Count(statement_strings(last.before), last.ret[i])
    /\ \A i \in 1..(Len(last.ret) - 1) :
         ~str_lt(last.ret[i + 1], last.ret[i])

\* A manager that had imported typing and then pkg.b.Foo, and so holds its
\* statements in another order than the ascending one, was asked for them.
C14_Witness ==
  /\ last.op = "get_import_statements"
  /\ last.mgr # None
  /\ statement_strings(last.before)
       = <<"import typing", "from pkg.b import Foo">>
  /\ last.ret = <<"from pkg.b import Foo", "import typing">>
  /\ str_lt(last.ret[1], last.ret[2])

IsLookup(call) == call.op \in {"is_imported", "is_known_name", "get_name_to_use"}

\* C18: is_imported, is_known_name and get_name_to_use on a fixed manager,
\* for any name, do not raise and leave the imported names, the defining
\* names, the short name pool and the import statements of that manager, of
\* the root manager and of every other manager as they were.
C18_FixedLookupsMutateNothing ==
  [][ (IsLookup(last') /\ Before.fix_modules) =>
        /\ last'.exc = NoException
        /\ SameTable(After, Before)
        /\ SameTable(pool'.root_manager, pool.root_manager)
        /\ pool' = pool ]_vars

\* A fixed manager with a root was asked for a name the root has imported
\* and it has not.
C18_Witness ==
  /\ IsLookup(last)
  /\ last.mgr # None
  /\ last.before.fix_modules
  /\ last.arg \in DOMAIN pool.root_manager.imported_names
  /\ last.arg \notin DOMAIN last.before.imported_names
  /\ last.exc = NoException

\* The last segment of a dotted name.
LastSegment(full_name) == split(full_name)[Len(split(full_name))]

\* C20: add_defining_objects on a manager that is not fixed, of a full name
\* it has not declared and whose last segment is in its short name pool,
\* does not raise, records the name as declared under that segment, emits
\* a warning, and leaves the alias of every other name, imported or
\* declared, and the short name pool as they were.
C20_DeclareCollisionWarns ==
  [][ (/\ last'.op = "add_defining_objects"
       /\ ~Before.fix_modules
       /\ last'.arg \notin DOMAIN Before.defining_names
       /\ LastSegment(last'.arg) \in Before.short_name_pool) =>
        /\ last'.exc = NoException
        /\ last'.warned
        /\ DOMAIN After.defining_names
             = DOMAIN Before.defining_names \cup {last'.arg}
        /\ After.defining_names[last'.arg] = LastSegment(last'.arg)
        /\ \A f \in DOMAIN Before.defining_names :
             After.defining_names[f] = Before.defining_names[f]
        /\ After.imported_names = Before.imported_names
        /\ After.short_name_pool = Before.short_name_pool ]_vars

\* A name was declared whose last segment was the alias of a name of another
\* module, imported before, which keeps that alias.
C20_Witness ==
  /\ last.op = "add_defining_objects"
  /\ last.warned
  /\ last.arg \notin DOMAIN last.before.defining_names
  /\ \E f \in DOMAIN last.before.imported_names :
       /\ f # last.arg
       /\ last.before.imported_names[f] = LastSegment(last.arg)
       /\ Manager(pool, last.mgr).imported_names[f] = LastSegment(last.arg)

\* The aliases of the imported names of a manager are pairwise different and
\* every alias of an imported or a declared name is in the short name pool.
AliasesWellKept(im) ==
  /\ \A f, g \in DOMAIN im.imported_names :
       f # g => im.imported_names[f] # im.imported_names[g]
  /\ \A f \in DOMAIN im.imported_names :
       im.imported_names[f] \in im.short_name_pool
  /\ \A f \in DOMAIN im.defining_names :
       im.defining_names[f] \in im.short_name_pool

\* Every name of the table before is in the table after, with its alias.
KeepsAliases(before, after) ==
  \A f \in DOMAIN before :
    f \in DOMAIN after /\ after[f] = before[f]

\* C25: in every manager, after any sequence of operations, the aliases of
\* the imported names are pairwise different, every alias of an imported or
\* declared name is in the short name pool, and no operation changes or
\* removes the alias a name has.
C25_AliasesDistinctPooledKept ==
  /\ [](\A id \in ManagerIds : AliasesWellKept(Manager(pool, id)))
  /\ [][\A id \in ManagerIds :
          /\ id \in {None} \cup DOMAIN pool'.managers
          /\ \/ Manager(pool', id) = Manager(pool, id)
             \/ /\ KeepsAliases(Manager(pool, id).imported_names,
                                Manager(pool', id).imported_names)
                /\ KeepsAliases(Manager(pool, id).defining_names,
                                Manager(pool', id).defining_names)]_vars

\* A manager that had imported pkg.a.Foo as Foo and declared a name has
\* imported pkg.b.Foo under a suffixed alias, the earlier aliases kept.
C25_Witness ==
  /\ last.op = "add_object_to_import"
  /\ last.mgr # None
  /\ "pkg.a.Foo" \in DOMAIN last.before.imported_names
  /\ last.before.imported_names["pkg.a.Foo"] = "Foo"
  /\ "pkg.a.Foo" \in DOMAIN Manager(pool, last.mgr).imported_names
  /\ Manager(pool, last.mgr).imported_names["pkg.a.Foo"] = "Foo"
  /\ "pkg.b.Foo" \notin DOMAIN last.before.imported_names
  /\ "pkg.b.Foo" \in DOMAIN Manager(pool, last.mgr).imported_names
  /\ Manager(pool, last.mgr).imported_names["pkg.b.Foo"] = "Foo_0"
  /\ {"Foo", "Foo_0"} \subseteq Manager(pool, last.mgr).short_name_pool

-----------------------------------------------------------------------------
(* Properties of the Property classes, under SpecProp. *)

\* The step is a call of a constructor or a method of a property, which
\* plast' describes: the calls that set the managers up are counted in
\* nops.
IsPropCall == nops' = nops

\* C11: the constructor of DictProperty, given a key type other than str,
\* raises CodeGenerationException and makes no property, and the import
\* manager it was given (as every other manager) is as it was: no alias, no
\* short name and no import statement is added.
C11_DictKeyMustBeStr ==
  [][ (/\ IsPropCall
       /\ plast'.op = "DictProperty"
       /\ plast'.arg.key_type # "str") =>
        /\ plast'.exc = CodeGenerationException
        /\ prop' = NoProperty
        /\ SameTable(Manager(pool', plast'.mgr), Manager(pool, plast'.mgr))
        /\ pool' = pool ]_vars

\* The constructor raised for the key type int, given a manager that was not
\* fixed and a value type the root manager had imported and that manager had
\* not: a value type that is_imported records in the manager.
C11_Witness ==
  /\ plast.op = "DictProperty"
  /\ plast.arg.key_type = "int"
  /\ plast.exc = CodeGenerationException
  /\ ~plast.before.fix_modules
  /\ plast.arg.value_type \in DOMAIN pool.root_manager.imported_names
  /\ plast.arg.value_type \notin DOMAIN plast.before.imported_names
  /\ Manager(pool, plast.mgr) = plast.before

\* The name a manager holds for a full name: the name itself for a
\* primitive, else the alias it was declared with, else the alias it was
\* imported with, else None.
NameOf(im, full_name) ==
  IF full_name \in SUPPORTED_PRIMITIVES THEN full_name
  ELSE IF full_name \in DOMAIN im.defining_names
  THEN im.defining_names[full_name]
  ELSE IF full_name \in DOMAIN im.imported_names
  THEN im.imported_names[full_name]
  ELSE None

\* The full name of the type of the elements, the values or the field.
ElementType(p) ==
  IF p.kind = "ListProperty" THEN p.item_type
  ELSE IF p.kind = "DictProperty" THEN p.value_type
  ELSE p.type_str

\* The type a property is to be given in the code, T being the name of its
\* element type: C[T], C[str, T] or Optional[T], with T between quotes when
\* the property refers to the entry it is of.
TypeExpression(p, im) ==
  LET T == NameOf(im, ElementType(p))
      Q == IF p.self_ref THEN "'" \o T \o "'" ELSE T
      C == NameOf(im, p.type_str)
  IN IF p.kind = "ListProperty" THEN C \o "[" \o Q \o "]"
     ELSE IF p.kind = "DictProperty" THEN C \o "[str, " \o Q \o "]"
     ELSE "Optional[" \o Q \o "]"

\* C15: the declaration of a property is <indentation><name>: <type> and its
\* initializer <indentation>self.<name>: <type> = <default>, where <type>
\* is C['T'] for a ListProperty, C[str, 'T'] for a DictProperty and
\* Optional['T'] for a NonCompositeProperty when self_ref is set, and the
\* same with T bare when it is not; T is the name the import manager of the
\* property resolves the element type to, and C the alias of the List or
\* Dict class of the property.
C15_SelfRefIsQuoted ==
  [][ (/\ IsPropCall
       /\ plast'.op \in {"to_declaration", "to_init_code"}
       /\ NameOf(Manager(pool', plast'.mgr), ElementType(prop)) # None) =>
        LET im == Manager(pool', plast'.mgr)
            type == TypeExpression(prop, im)
        IN /\ plast'.exc = NoException
           /\ prop' = prop
           /\ prop.kind = "ListProperty" =>
                NameOf(im, prop.type_str) \in {"List", "FList"}
           /\ prop.kind = "DictProperty" =>
                NameOf(im, prop.type_str) \in {"Dict", "FDict"}
           /\ plast'.op = "to_declaration" =>
                plast'.ret = spaces(4 * plast'.arg.level) \o prop.name \o ": "
                               \o type
           /\ plast'.op = "to_init_code" =>
                plast'.ret = spaces(4 * plast'.arg.level) \o "self." \o prop.name
                               \o ": " \o type \o " = "
                               \o default_value(prop) ]_vars

\* The initializer of a DictProperty of the module pkg.a whose values are of
\* the entry pkg.a.Foo, declared in the module, and that refers to its own
\* entry.
C15_Witness ==
  /\ plast.op = "to_init_code"
  /\ prop.kind = "DictProperty"
  /\ prop.self_ref
  /\ prop.value_type = "pkg.a.Foo"
  /\ prop.import_manager = "pkg.a"
  /\ plast.ret = "    self.items: Dict[str, 'Foo'] = dict()"

\* The step is the construction of a ListProperty or a DictProperty that
\* did not raise.
IsNewCollection ==
  /\ IsPropCall
  /\ plast'.op \in {"ListProperty", "DictProperty"}
  /\ plast'.exc = NoException

\* The property made has the typed container, FList or FDict, as its type
\* and the container bound to the entry as its default.
IsTyped(p) ==
  /\ p.type_str = (IF p.kind = "ListProperty"
                   THEN "forte.data.ontology.core.FList"
                   ELSE "forte.data.ontology.core.FDict")
  /\ default_value(p) = (IF p.kind = "ListProperty" THEN "FList(self)"
                         ELSE "FDict(self)")

\* The property made has the plain collection as its type and the empty
\* collection as its default.
IsPlain(p) ==
  /\ p.type_str = (IF p.kind = "ListProperty" THEN "typing.List"
                   ELSE "typing.Dict")
  /\ default_value(p) = (IF p.kind = "ListProperty" THEN "[]" ELSE "dict()")

\* C24: a ListProperty or DictProperty has the typed container exactly when,
\* as it is constructed, its element type is declared by the module of its
\* manager, imported into it, or imported in the root manager, and the
\* plain collection otherwise; a primitive element type gives the plain
\* collection.
C24_TypedExactlyWhenKnown ==
  [][IsNewCollection =>
       LET known == \/ ElementType(prop') \in DOMAIN plast'.before.defining_names
                    \/ ElementType(prop') \in DOMAIN plast'.before.imported_names
                    \/ ElementType(prop') \in DOMAIN pool.root_manager.imported_names
       IN /\ known => IsTyped(prop')
          /\ ~known => IsPlain(prop')
          /\ ElementType(prop') \in SUPPORTED_PRIMITIVES => IsPlain(prop')
    ]_vars

\* A ListProperty or DictProperty has the typed container exactly when, as
\* it is constructed, its element type is imported into the module of its
\* manager, or imported in the root manager while the manager is not fixed.
C24_TypedExactlyWhenImported ==
  [][IsNewCollection =>
       LET imported ==
             \/ ElementType(prop') \in DOMAIN plast'.before.imported_names
             \/ /\ ElementType(prop') \in DOMAIN pool.root_manager.imported_names
                /\ ~plast'.before.fix_modules
       IN /\ imported => IsTyped(prop')
          /\ ~imported => IsPlain(prop')
          /\ ElementType(prop') \in SUPPORTED_PRIMITIVES => IsPlain(prop')
    ]_vars

-----------------------------------------------------------------------------
(* Properties of the EntryTree, under SpecTree. *)

\* No two nodes of the tree t have one name.
UniqueNames(t) ==
  \A i, j \in DOMAIN t : i # j => t[i].name # t[j].name

\* C7: after any add_node calls, with the names of children and parents
\* drawn from one set, the tree holds at most one node of each name.
C7_OneNodePerName == UniqueNames(tree)

\* The one parent an entry was declared with.
DeclaredParent(c) == CHOOSE p \in declared[c] : TRUE

\* Following declared parents from the name c leaves the entries within n
\* steps.
RECURSIVE LeavesEntries(_, _)
LeavesEntries(c, n) ==
  \/ c \notin DOMAIN declared
  \/ n > 0 /\ LeavesEntries(DeclaredParent(c), n - 1)

\* The add_node calls made so far declare a hierarchy: every entry with one
\* parent, no entry named as the synthetic root, no entry its own ancestor.
DeclaresHierarchy ==
  /\ "root" \notin DOMAIN declared
  /\ \A c \in DOMAIN declared : Cardinality(declared[c]) = 1
  /\ \A c \in DOMAIN declared :
       LeavesEntries(DeclaredParent(c), Cardinality(DOMAIN declared))

\* C8: for entries of one declared parent each, added in any order, the
\* parent of every entry's node in the tree is the node of its declared
\* parent.
C8_ParentIsDeclaredParent ==
  DeclaresHierarchy =>
    \A i \in DOMAIN tree :
      tree[i].name \in DOMAIN declared =>
        /\ tree[i].parent # NoNode
        /\ tree[tree[i].parent].name = DeclaredParent(tree[i].name)

\* The proper ancestors of a node.
RECURSIVE Ancestors(_, _)
Ancestors(t, node) ==
  IF t[node].parent = NoNode THEN {}
  ELSE {t[node].parent} \cup Ancestors(t, t[node].parent)

\* What C9 says of the last call, a collect_parents.
CollectsAncestors ==
  /\ tlast.exc = NoException
  /\ "root" \notin DOMAIN tlast.ret
  /\ \A n \in DOMAIN tlast.arg :
       \A x \in DOMAIN tree \ {root} :
         tree[x].name = n =>
           \A a \in Ancestors(tree, x) \ {root} :
             /\ tree[a].name \in DOMAIN tlast.ret
             /\ tlast.ret[tree[a].name] = AttributeNames(tree[a].attributes)
  /\ \A x \in DOMAIN tree :
       (/\ DOMAIN tlast.arg = {"Child"}
        /\ tree[x].name = "Child"
        /\ tree[x].parent # NoNode
        /\ tree[tree[x].parent].name = "Parent"
        /\ tree[tree[x].parent].parent = root) =>
         tlast.ret = DictSet(tlast.arg, "Parent",
                             AttributeNames(tree[tree[x].parent].attributes))

\* C9: collect_parents of a dict with the name of a node other than the
\* root as a key maps the name of every proper ancestor of the node, the
\* root left out, to the set of that ancestor's attribute names, and adds
\* no key for the root; with Child under Parent under the root, the dict
\* of the one key Child gets the one further key Parent.
C9_CollectsEveryAncestor ==
  tlast.op = "collect_parents" => CollectsAncestors

\* C9 where the nodes of the tree have pairwise different names.
C9_WithUniqueNames ==
  (tlast.op = "collect_parents" /\ UniqueNames(tree)) => CollectsAncestors

\* A node and what is below it: its name, its attributes, the name of its
\* parent and its children in their order.
RECURSIVE Shape(_, _)
Shape(t, node) ==
  [name |-> t[node].name,
   attributes |-> t[node].attributes,
   parent |-> IF t[node].parent = NoNode THEN None
              ELSE t[t[node].parent].name,
   children |-> [i \in DOMAIN t[node].children |->
                   Shape(t, t[node].children[i])]]

\* C10: a fresh tree loaded by fromdict from what todict returned has the
\* names, the attributes of every node, the parent of every node and the
\* children of every node, in their order, of the tree dumped.
C10_RoundTrip ==
  tlast.op = "fromdict" =>
    /\ Len(tlast.ret) = Len(tree)
    /\ Shape(tlast.ret, root) = Shape(tree, root)

\* C10 where the nodes of the tree have pairwise different names.
C10_WithUniqueNames ==
  (tlast.op = "fromdict" /\ UniqueNames(tree)) =>
    /\ Len(tlast.ret) = Len(tree)
    /\ Shape(tlast.ret, root) = Shape(tree, root)

\* C19: add_node of a name some node of the tree has creates no node and
\* changes one thing: the attributes of one node of that name become the
\* set given.  The parent and the children of every node are as they were,
\* whatever parent name is given.
C19_ExistingNodeKeepsShape ==
  [][ (/\ tlast'.op = "add_node"
       /\ \E i \in DOMAIN tree : tree[i].name = tlast'.arg[1]) =>
        /\ Len(tree') = Len(tree)
        /\ \A i \in DOMAIN tree :
             /\ tree'[i].name = tree[i].name
             /\ tree'[i].parent = tree[i].parent
             /\ tree'[i].children = tree[i].children
        /\ \E i \in DOMAIN tree :
             /\ tree[i].name = tlast'.arg[1]
             /\ tree' = [tree EXCEPT ![i].attributes = tlast'.arg[3]] ]_vars

\* Child, added under Top, was added again under Parent, which names no
\* node, with other attributes: the tree is the root, Top and Child under
\* Top, with the new attributes.
C19_Witness ==
  /\ tlast.op = "add_node"
  /\ tlast.arg[1] = "Child"
  /\ tlast.arg[2] = "Parent"
  /\ tlast.arg[3] # {}
  /\ declared["Child"] = {"Top", "Parent"}
  /\ Len(tree) = 3
  /\ \A i \in DOMAIN tree : tree[i].name # "Parent"
  /\ \E i \in DOMAIN tree :
       /\ tree[i].name = "Child"
       /\ tree[i].attributes = tlast.arg[3]
       /\ tree[tree[i].parent].name = "Top"

\* The places of a node in the children lists of the tree.
PlacesOf(t, node) ==
  {place \in (DOMAIN t) \X (1..Len(t)) :
     /\ place[2] \in DOMAIN t[place[1]].children
     /\ t[place[1]].children[place[2]] = node}

\* Following the parent references from the node reaches the root in at
\* most steps steps.
RECURSIVE ReachesRoot(_, _, _)
ReachesRoot(t, node, steps) ==
  \/ node = root
  \/ /\ steps > 0
     /\ t[node].parent \in DOMAIN t
     /\ ReachesRoot(t, t[node].parent, steps - 1)

WellFormed(t) ==
  /\ t[root].parent = NoNode
  /\ PlacesOf(t, root) = {}
  /\ \A node \in DOMAIN t \ {root} :
       /\ Cardinality(PlacesOf(t, node)) = 1
       /\ \A place \in PlacesOf(t, node) : place[1] = t[node].parent
       /\ ReachesRoot(t, node, Len(t))

\* C26: after any sequence of add_node calls the root has no parent, every
\* other node is exactly once in exactly one children list, that of the node
\* its parent reference points to, and the parent references lead from every
\* node to the root.
C26_TreeWellFormed == WellFormed(tree)

\* Two add_node calls have built a tree of a placeholder under the root, a
\* node under it and a node under that one.
C26_Witness ==
  /\ tlast.op = "add_node"
  /\ Len(tree) = 4
  /\ \E node \in DOMAIN tree :
       /\ tree[node].parent \notin {NoNode, root}
       /\ tree[tree[node].parent].parent \notin {NoNode, root}
       /\ tree[tree[tree[node].parent].parent].parent = root

\* The nodes other than the root that are proper ancestors of the node a
\* key of the dict names, which is the node search finds for the key; no
\* nodes when the key names none.
AncestorsOfKey(t, key) ==
  IF search(t, root, key) = NoNode THEN {}
  ELSE Ancestors(t, search(t, root, key)) \ {root}

\* C27: collect_parents of a dict none of whose keys is the root's name
\* raises nothing and leaves the tree as it was; every key of the dict is
\* still a key; every key added is the name of an ancestor, other than the
\* root, of a node a key names, so that keys that name no node add nothing;
\* the value of a key the dict had is changed only when the key is the name
\* of such an ancestor of another key, and is then that ancestor's set of
\* attribute names.
C27_CollectParentsFrame ==
  /\ [][tlast'.op = "collect_parents" => tree' = tree]_vars
  /\ []((tlast.op = "collect_parents" /\ "root" \notin DOMAIN tlast.arg) =>
         /\ tlast.exc = NoException
         /\ DOMAIN tlast.arg \subseteq DOMAIN tlast.ret
         /\ \A key \in DOMAIN tlast.ret \ DOMAIN tlast.arg :
              \E other \in DOMAIN tlast.arg :
                \E a \in AncestorsOfKey(tree, other) : tree[a].name = key
         /\ \A key \in DOMAIN tlast.arg :
              /\ tlast.ret[key] # tlast.arg[key] =>
                   \E other \in DOMAIN tlast.arg \ {key} :
                     \E a \in AncestorsOfKey(tree, other) :
                       tree[a].name = key
              /\ \A other \in DOMAIN tlast.arg \ {key} :
                   \A a \in AncestorsOfKey(tree, other) :
                     tree[a].name = key =>
                       tlast.ret[key] = AttributeNames(tree[a].attributes))

\* collect_parents was given the keys Parent and Child and a key that names
\* no node is not among them; Child is under Parent, which has attributes
\* and is under a node that is not the root: the value of Parent is
\* replaced, that of Child kept, and the name above Parent added.
C27_Witness ==
  /\ tlast.op = "collect_parents"
  /\ tlast.exc = NoException
  /\ DOMAIN tlast.arg = {"Parent", "Child"}
  /\ tlast.arg["Parent"] = {"q"}
  /\ DOMAIN tlast.ret = {"Parent", "Child", "Top"}
  /\ tlast.ret["Parent"] = {"a", "b"}
  /\ tlast.ret["Child"] = {"q"}
  /\ tlast.ret["Top"] = {}

-----------------------------------------------------------------------------
(* Properties of EntryDefinition and of the writers, under SpecModule *)

\* The string begins with the prefix.
StartsWith(s, prefix) ==
  Len(s) >= Len(prefix) /\ SubSeq(s, 1, Len(prefix)) = prefix

\* The place of the class header of an entry among the lines of its code
\* emitted at a level; 0 when there is none.
HeaderPlace(lines, item, level) ==
  IF \E h \in DOMAIN lines :
       lines[h] = indent(level) \o "class " \o item.name \o "("
                    \o item.class_type \o "):"
  THEN CHOOSE h \in DOMAIN lines :
         lines[h] = indent(level) \o "class " \o item.name \o "("
                      \o item.class_type \o "):"
  ELSE 0

\* From the place first on, the lines hold the block of the description of
\* the entry: the quotes, the description if there is one, the title
\* 'Attributes:' and one line per property in the order of the properties
\* if there are properties, and the quotes.
HoldsBlock(lines, first, item, level) ==
  /\ first + (IF item.description = None THEN 0 ELSE 1)
       + (IF Len(item.properties) = 0 THEN 0
          ELSE Len(item.properties) + 1) + 1 \in DOMAIN lines
  /\ lines[first] = indent(level + 1) \o "\"\"\""
  /\ item.description # None =>
       lines[first + 1] = indent(level + 1) \o item.description
  /\ Len(item.properties) > 0 =>
       /\ lines[first + (IF item.description = None THEN 1 ELSE 2)]
            = indent(level + 1) \o "Attributes:"
       /\ \A i \in DOMAIN item.properties :
            StartsWith(lines[first + (IF item.description = None THEN 1 ELSE 2)
                             + i],
                       indent(level + 2) \o item.properties[i].name \o " (")
  /\ lines[first + (IF item.description = None THEN 0 ELSE 1)
             + (IF Len(item.properties) = 0 THEN 0
                ELSE Len(item.properties) + 1) + 1]
       = indent(level + 1) \o "\"\"\""

\* The code to_code returned last has, right after the class header, the
\* block of the description of the entry.
BlockFollowsHeader(lines, item, level) ==
  /\ HeaderPlace(lines, item, level) # 0
  /\ HoldsBlock(lines, HeaderPlace(lines, item, level) + 1, item, level)

\* C22: the code to_code returns for an entry has a docstring block right
\* after the class header, for every entry: an empty block, the quotes
\* only, when the entry has no description and no properties, and
\* otherwise a block of the description, the title 'Attributes:' and one
\* line per property in the order of the properties.
C22_DocstringBlockForEveryEntry ==
  (mlast.op = "to_code" /\ mlast.exc = NoException)
  => BlockFollowsHeader(split_by(mlast.ret, line_break), entry.item,
                        mlast.arg.level)

\* The code to_code returns has the docstring block right after the class
\* header when the entry has a description or a property; when it has
\* neither, the class header is followed by an empty line and by the
\* __init__ method, and no line of the code holds the quotes.
C22_BlockWhenDescribed ==
  (mlast.op = "to_code" /\ mlast.exc = NoException)
  => IF entry.item.description # None \/ Len(entry.item.properties) > 0
     THEN BlockFollowsHeader(split_by(mlast.ret, line_break), entry.item,
                             mlast.arg.level)
     ELSE mlast.ret
            = join(line_break,
                   <<"", "",
                     indent_line("@dataclass", mlast.arg.level),
                     indent_line("class " \o entry.item.name \o "("
                                   \o entry.item.class_type \o "):",
                                 mlast.arg.level),
                     "",
                     indent_line("def __init__(self, "
                                   \o entry.item.init_args \o "):",
                                 mlast.arg.level + 1),
                     indent_line("super().__init__(pack)",
                                 mlast.arg.level + 2),
                     "">>)

\* The names of the entries of a writer, in the order of the add_entry
\* calls.
NamesAdded(writer) ==
  [i \in DOMAIN writer.entries |-> writer.entries[i][1].name]

\* The file write makes for a writer.
FileOf(writer) ==
  tempdir \o split_file_path(writer.pkg_dir) \o <<writer.file_name \o ".py">>

\* The lines of a text that are headers of classes, in their order.
ClassLines(lines) == SelectSeq(lines, LAMBDA line : StartsWith(line, "class "))

\* The lines hold, from the place first on, the export list of the names:
\* the opening, one line per name in the order of the names (an empty line
\* when there is no name) and the closing; no header of a class comes
\* before the closing.
HoldsExportList(lines, first, names) ==
  /\ first + (IF Len(names) = 0 THEN 1 ELSE Len(names)) + 1 \in DOMAIN lines
  /\ lines[first] = "__all__ = ["
  /\ \A i \in DOMAIN names :
       lines[first + i] = indent(1) \o "\"" \o names[i] \o "\","
  /\ Len(names) = 0 => lines[first + 1] = ""
  /\ lines[first + (IF Len(names) = 0 THEN 1 ELSE Len(names)) + 1] = "]"
  /\ \A i \in 1..(first + (IF Len(names) = 0 THEN 1 ELSE Len(names)) + 1) :
       ~StartsWith(lines[i], "class ")

\* The lines of the file of a module: one export list, naming the entries
\* once per add_entry call in the order of the calls, before the code of
\* any entry, and then the classes of the entries in that same order.
ExportsThenEntries(lines, names) ==
  /\ Cardinality({i \in DOMAIN lines : lines[i] = "__all__ = ["}) = 1
  /\ \E first \in DOMAIN lines : HoldsExportList(lines, first, names)
  /\ ClassLines(lines) = [i \in DOMAIN names |->
                            "class " \o names[i] \o "(Entry):"]

\* C21: get of the pool of writers gives, for a module it has a writer of,
\* that same writer, so that the entries added through it add up; and the
\* file the writer writes holds the export list before the code of any
\* entry, with the name of every entry added once per add_entry call in
\* the order of the calls, followed by the classes of the entries in that
\* same order.
C21_SameWriterExportsInOrder ==
  /\ []((mlast.op = "write" /\ mlast.exc = NoException)
        => ExportsThenEntries(
             split_by(fs[FileOf(module_writers[mlast.module_name])],
                      line_break),
             NamesAdded(module_writers[mlast.module_name])))
  /\ [][/\ (mlast'.op = "get" /\ mlast'.module_name \in DOMAIN module_writers)
             => module_writers' = module_writers
        /\ (/\ mlast'.op = "add_entry"
            /\ mops' = mops + 1
            /\ mlast'.module_name \in DOMAIN module_writers)
             => module_writers' =
                  [module_writers EXCEPT
                     ![mlast'.module_name].entries =
                       Append(@, <<entry'.en, entry'.item>>)]]_vars

\* C21: the writer of pkg.a, asked of the pool twice, was given Foo and then
\* Bar and has written the file of the module: 'Foo' is named before 'Bar'
\* and the class Foo comes before the class Bar.
C21_Witness ==
  /\ mlast.op = "write"
  /\ mlast.exc = NoException
  /\ mlast.module_name = "pkg.a"
  /\ "pkg.a" \in DOMAIN module_writers
  /\ NamesAdded(module_writers["pkg.a"]) = <<"Foo", "Bar">>
  /\ FileOf(module_writers["pkg.a"]) \in DOMAIN fs
  /\ ClassLines(split_by(fs[FileOf(module_writers["pkg.a"])], line_break))
       = <<"class Foo(Entry):", "class Bar(Entry):">>

====
